---- MODULE Spec2Model ----
(***************************************************************************)
(* Order workflow of the food marketplace backend: POST /api/orders        *)
(* (create order inside one database transaction), PATCH                   *)
(* /api/orders/:id/status (status transition), the catalog routes          *)
(* POST/PUT/DELETE /api/food, the cart routes of /api/users/cart, the      *)
(* reads GET /api/orders and GET /api/orders/:id, and the tables of        *)
(* database/schema.sql they work on.                                       *)
(*                                                                         *)
(* Money is held in cents (DECIMAL(10,2) columns).  A JavaScript number    *)
(* computed by the handler is held as its exact value in hundredths of a   *)
(* cent; the binary representation error of the double is a sign chosen    *)
(* when the number is converted to a DECIMAL(10,2) column.                 *)
(*                                                                         *)
(* The database is InnoDB with its default isolation: the reads of a       *)
(* transaction see the snapshot of its first read, its writes are private  *)
(* until COMMIT, a foreign-key check takes a shared lock on the parent     *)
(* row, an UPDATE takes an exclusive lock, and a lock cycle makes one      *)
(* statement fail.                                                         *)
(***************************************************************************)
EXTENDS Integers, Sequences, FiniteSets, TLC

\* ------------------------------------------------------------------ bounds
MaxOrders == 2          \* orders placed in SpecOrders; order ids a request may name
MaxPricedOrders == 1    \* orders placed in SpecPricing
MaxStatusOrders == 1    \* orders placed in SpecStatus
MaxCalls == 2           \* calls of any route in Spec
MaxQty == 2             \* items of one create-order request, over all its lines
MaxFoodItems == 3       \* food item ids the auto-increment may hand out
MaxCatalogOps == 1      \* DELETE /api/food calls in SpecOrders
MaxTransitions == 2     \* PATCH /api/orders/:id/status calls in SpecStatus
MaxDispatchOrders == 2  \* orders placed in SpecDispatch
MaxDispatchCalls == 1   \* PATCH /api/orders/:id/status calls in SpecDispatch
MaxReadCalls == 1       \* PATCH /api/orders/:id/status calls in SpecReads
MaxCartOrders == 1      \* orders placed in SpecCart
MaxReleaseOrders == 2   \* orders placed in SpecRelease
MaxSocketOrders == 1    \* orders placed in SpecSocket
MaxSocketCalls == 2     \* PATCH /api/orders/:id/status calls in SpecSocket
MaxRelayed == 1         \* order_update messages in SpecSocket
MaxRestaurants == 3     \* rows of restaurants in SpecRestaurants
MaxRestaurantOrders == 1    \* orders placed in SpecRestaurants
MaxRestaurantCalls == 1     \* PATCH /api/orders/:id/status calls in SpecRestaurants
MaxCartCalls == 2       \* cart calls (add, remove) in SpecCart

\* --------------------------------------------------------------- constants
\* SQL NULL of a DATETIME column; real timestamps are positive
NULL == 0
Nobody == "nobody"
TaxPercent == 5
SampleDeliveryFee == 250

Customers == {"cust1", "cust2"}
Cooks == {"cook1", "cook2"}
Admins == {"admin"}
Users == Customers \cup Cooks \cup Admins

\* users.user_type
user_type(u) ==
    IF u \in Customers THEN "customer" ELSE IF u \in Cooks THEN "cook" ELSE "admin"

OrderStatus == {"pending", "confirmed", "preparing", "sent_to_delivery", "delivered", "cancelled"}

Prices == {70, 500, 1000}
FoodIds == 1..MaxFoodItems
RestIds == {1, 2}
OrderIds == 1..MaxOrders
\* values of generateOrderNumber(): as many as there may be orders
OrderNumbers == 1..MaxOrders

\* request handlers that may run concurrently, per route
PSeq == <<"p1", "p2">>
TSeq == <<"t1", "t2">>
CSeq == <<"a1", "a2">>
RSeq == <<"r1", "r2">>
Procs == {PSeq[n] : n \in 1..Len(PSeq)}
TProcs == {TSeq[n] : n \in 1..Len(TSeq)}
CProcs == {CSeq[n] : n \in 1..Len(CSeq)}
RProcs == {RSeq[n] : n \in 1..Len(RSeq)}

\* sign of the representation error of a double: below or at/above the
\* decimal value it stands for
FloatErr == {-1, 1}

VARIABLES
    restaurants,    \* table restaurants: id -> row
    food_items,     \* table food_items: id -> row, for the ids that exist
    nextFoodId,     \* AUTO_INCREMENT of food_items
    orders,         \* table orders: set of committed rows
    nextOrderId,    \* AUTO_INCREMENT of orders
    order_items,    \* table order_items: set of committed rows
    nextItemId,     \* AUTO_INCREMENT of order_items
    cart_items,     \* table cart_items: set of rows
    nextCartId,     \* AUTO_INCREMENT of cart_items
    co,             \* create-order handlers: locals of POST /api/orders
    tx,             \* their open transactions: uncommitted writes and locks
    tr,             \* transition handlers: locals of PATCH /:id/status
    ca,             \* add-to-cart handlers: locals of POST /api/users/cart
    emitted,        \* socket.io events emitted, in order
    catalogOps,     \* budget counters
    cartOps,
    transitions,
    rd,             \* read handler: locals and answer of GET /api/orders[/:id]
    cr              \* create-restaurant handlers: locals of POST /api/restaurants

vars == <<restaurants, food_items, nextFoodId, orders, nextOrderId, order_items,
          nextItemId, cart_items, nextCartId, co, tx, tr, ca,
          emitted, catalogOps, cartOps, transitions, rd, cr>>

\* The time, CURRENT_TIMESTAMP and new Date(): it advances by one with every
\* status request that arrives.
now == transitions

\* ------------------------------------------------------------ pure helpers

\* A double holding value v (hundredths of a cent) stored in a DECIMAL(10,2)
\* column: rounded to the cent; at a half cent the double lies below (e < 0)
\* or at/above (e > 0) the tie.
ToDecimal2(v, e) ==
    LET q == v \div 100
        r == v % 100
    IN  IF r > 50 \/ (r = 50 /\ e > 0) THEN q + 1 ELSE q

\* parseFloat(foodItem.price) * item.quantity, in hundredths of a cent
itemTotal(price, quantity) == (price * 100) * quantity

\* const taxAmount = totalAmount * 0.05
taxAmount(totalAmount) == (totalAmount * TaxPercent) \div 100

\* const finalAmount = totalAmount + deliveryFee + taxAmount
finalAmount(totalAmount, deliveryFee, tax) == totalAmount + deliveryFee + tax

\* ---------------------------------------------------- create-order: reads

\* mutant: the is_active flag is not looked at
activeRestaurantAnyFlag(restaurant_id) == restaurant_id \in DOMAIN restaurants

\* SELECT id, delivery_fee FROM restaurants WHERE id = ? AND is_active = true
activeRestaurant(restaurant_id) ==
    restaurant_id \in DOMAIN restaurants /\ restaurants[restaurant_id].is_active

\* mutant: the item is looked up by its id alone
foodItemAnywhere(food_item_id, restaurant_id) == food_item_id \in DOMAIN food_items

\* SELECT ... FROM food_items WHERE id = ? AND restaurant_id = ?
foodItemOf(food_item_id, restaurant_id) ==
    /\ food_item_id \in DOMAIN food_items
    /\ food_items[food_item_id].restaurant_id = restaurant_id

\* mutant: the availability flag is not looked at
unavailableNeverThrown(foodItem) == FALSE

\* if (!foodItem.is_available) throw new AppError(..., 400)
unavailable(foodItem) == ~foodItem.is_available

\* The loop "for (const item of items)": the lines are taken in order; the
\* first line whose item is missing throws 404, the first whose item is not
\* available throws 400, else the line is priced and pushed on orderItems.
RECURSIVE validateItems(_, _, _, _)
validateItems(items, restaurant_id, orderItems, totalAmount) ==
    IF items = <<>> THEN [err |-> 0, orderItems |-> orderItems, totalAmount |-> totalAmount]
    ELSE LET item == Head(items) IN
         IF ~foodItemOf(item.food_item_id, restaurant_id)
         THEN [err |-> 404, orderItems |-> <<>>, totalAmount |-> 0]
         ELSE LET foodItem == food_items[item.food_item_id] IN
              IF unavailable(foodItem)
              THEN [err |-> 400, orderItems |-> <<>>, totalAmount |-> 0]
              ELSE validateItems(Tail(items), restaurant_id,
                       Append(orderItems,
                              [food_item_id |-> item.food_item_id,
                               quantity |-> item.quantity,
                               unit_price |-> foodItem.price,
                               total_price |-> itemTotal(foodItem.price, item.quantity)]),
                       totalAmount + itemTotal(foodItem.price, item.quantity))

\* the request bodies that pass the express-validator chain (items a
\* non-empty array, each quantity an integer >= 1), of at most MaxQty items
RECURSIVE sumQuantity(_)
sumQuantity(items) == IF items = <<>> THEN 0 ELSE Head(items).quantity + sumQuantity(Tail(items))
RequestLines == [food_item_id : FoodIds, quantity : 1..MaxQty]
RequestItems == {items \in UNION {[1..n -> RequestLines] : n \in 1..MaxQty} :
                    sumQuantity(items) <= MaxQty}

\* three of them: one line, and two lines in either order
SampleItems ==
    {<<[food_item_id |-> 1, quantity |-> 1]>>,
     <<[food_item_id |-> 1, quantity |-> 1], [food_item_id |-> 2, quantity |-> 2]>>,
     <<[food_item_id |-> 2, quantity |-> 2], [food_item_id |-> 1, quantity |-> 1]>>}

\* -------------------------------------------------- transactions and locks

NoTx == [order |-> {}, lines |-> {}, incs |-> [i \in FoodIds |-> 0],
         cartDel |-> {}, slock |-> {}, xlock |-> {}]

IdleCo == [pc |-> "idle", customer_id |-> Nobody, restaurant_id |-> 0, items |-> <<>>,
           orderItems |-> <<>>, totalAmount |-> 0, deliveryFee |-> 0,
           orderNumber |-> 0, orderId |-> 0, k |-> 0, err |-> 0]

IdleTr == [pc |-> "idle", caller |-> Nobody, err |-> 0, orderId |-> 0, status |-> "",
           delivered_at |-> NULL, customer_id |-> Nobody, order_number |-> 0]

\* a create-restaurant handler before its SELECT
IdleCr == [pc |-> "idle", cook_id |-> Nobody]

IdleCa == [pc |-> "idle", customer_id |-> Nobody, food_item_id |-> 0, quantity |-> 0,
           existing |-> 0]

\* no read request taken yet
IdleRd == [pc |-> "idle", route |-> "", caller |-> Nobody, orderId |-> 0, status |-> "",
           page |-> 0, limit |-> 0, code |-> 0, orders |-> <<>>, items |-> {},
           totalCount |-> 0]

\* handlers between their first statement and their answer
inFlight == {p \in Procs : co[p].pc # "idle"} \cup {t \in TProcs : tr[t].pc # "idle"}
               \cup {a \in CProcs : ca[a].pc # "idle"}

\* food rows an open transaction holds a lock on
lockedByAny(i) == \E q \in Procs : i \in tx[q].slock \cup tx[q].xlock

\* order numbers inserted by another open transaction (unique index entry
\* not yet committed: a second insert of the number waits)
numberPendingIn(q, n) == \E o \in tx[q].order : o.order_number = n

\* the open transactions p's next statement waits for
waitsFor(p) ==
    CASE co[p].pc = "insert_item" ->
           {q \in Procs \ {p} : co[p].orderItems[co[p].k].food_item_id \in tx[q].xlock}
      [] co[p].pc = "update_count" ->
           {q \in Procs \ {p} : co[p].orderItems[co[p].k].food_item_id
                                    \in tx[q].slock \cup tx[q].xlock}
      [] OTHER -> {}

RECURSIVE reach(_, _)
reach(S, n) ==
    IF n = 0 THEN S ELSE reach(S \cup UNION {waitsFor(q) : q \in S}, n - 1)

\* p's statement is part of a lock cycle
deadlocked(p) == p \in reach(waitsFor(p), Cardinality(Procs))

\* the sample restaurant of the schema, and a second one with the default fee
SampleRestaurants ==
    [r \in RestIds |->
        IF r = 1 THEN [cook_id |-> "cook1", is_active |-> TRUE, delivery_fee |-> SampleDeliveryFee]
                 ELSE [cook_id |-> "cook2", is_active |-> TRUE, delivery_fee |-> 0]]

foodRow(restaurant_id, price, is_available) ==
    [restaurant_id |-> restaurant_id, price |-> price, is_available |-> is_available,
     total_orders |-> 0]

\* everything but the menu: no order yet, one cart row, all handlers idle
InitCommon ==
    /\ restaurants = SampleRestaurants
    /\ orders = {}
    /\ nextOrderId = 1
    /\ order_items = {}
    /\ nextItemId = 1
    /\ cart_items = {[id |-> 1, customer_id |-> "cust1", food_item_id |-> 1, quantity |-> 1]}
    /\ nextCartId = 2
    /\ co = [p \in Procs |-> IdleCo]
    /\ tx = [p \in Procs |-> NoTx]
    /\ tr = [t \in TProcs |-> IdleTr]
    /\ ca = [a \in CProcs |-> IdleCa]
    /\ emitted = <<>>
    /\ catalogOps = 0
    /\ cartOps = 0
    /\ transitions = 0
    /\ rd = IdleRd
    /\ cr = [h \in RProcs |-> IdleCr]

\* restaurant 1 sells items 1 and 2
Init ==
    /\ InitCommon
    /\ food_items = [i \in {1, 2} |-> IF i = 1 THEN foodRow(1, 1000, TRUE)
                                               ELSE foodRow(1, 500, TRUE)]
    /\ nextFoodId = 3

\* ------------------------------------------------- POST /api/orders (create)

\* Lines 30-95: validation chain passed, getConnection, beginTransaction, the
\* restaurant SELECT, the item loop and the amounts.  All reads are
\* consistent reads of the transaction's snapshot.
CreateOrderBegin(p, customer_id, restaurant_id, items) ==
    /\ co[p].pc = "idle"
    /\ LET v == validateItems(items, restaurant_id, <<>>, 0)
           err == IF ~activeRestaurant(restaurant_id) THEN 404 ELSE v.err
       IN  co' = [co EXCEPT ![p] =
                   IF err # 0
                   THEN [IdleCo EXCEPT !.pc = "rollback", !.err = err, !.items = items,
                                       !.restaurant_id = restaurant_id]
                   ELSE [pc |-> "insert_order", customer_id |-> customer_id,
                         restaurant_id |-> restaurant_id, items |-> items,
                         orderItems |-> v.orderItems, totalAmount |-> v.totalAmount,
                         deliveryFee |-> restaurants[restaurant_id].delivery_fee * 100,
                         orderNumber |-> 0, orderId |-> 0, k |-> 1, err |-> 0]]
    /\ UNCHANGED <<restaurants, food_items, nextFoodId, orders, nextOrderId, order_items,
                   nextItemId, cart_items, nextCartId, tx, tr, ca, emitted,
                   catalogOps, cartOps, transitions, rd, cr>>

\* Lines 44-45 when connection.beginTransaction() throws (the server went
\* away after the pool handed out the connection): the statement stands
\* before the try block of line 47, so neither its catch nor its finally
\* block runs.  The error goes to the error handler, which answers 500, and
\* the connection of line 44 stays checked out of the pool.
BeginTransactionThrows(p, customer_id, restaurant_id, items) ==
    /\ co[p].pc = "idle"
    /\ co' = [co EXCEPT ![p] =
                [IdleCo EXCEPT !.pc = "answered_unreleased", !.err = 500, !.items = items,
                               !.restaurant_id = restaurant_id]]
    /\ UNCHANGED <<restaurants, food_items, nextFoodId, orders, nextOrderId, order_items,
                   nextItemId, cart_items, nextCartId, tx, tr, ca, emitted,
                   catalogOps, cartOps, transitions, rd, cr>>

\* the pool connection of handler p is checked out: from getConnection()
\* (line 44) to connection.release() (line 190)
holdsConnection(p) == co[p].pc # "idle"

\* the row INSERT INTO orders writes; columns not named take their defaults
newOrder(p, orderNumber, eTax, eFinal) ==
    LET c == co[p]
        tax == taxAmount(c.totalAmount)
    IN  [id |-> nextOrderId,
         customer_id |-> c.customer_id,
         restaurant_id |-> c.restaurant_id,
         order_number |-> orderNumber,
         status |-> "pending",
         total_amount |-> ToDecimal2(c.totalAmount, 1),
         delivery_fee |-> ToDecimal2(c.deliveryFee, 1),
         tax_amount |-> ToDecimal2(tax, eTax),
         discount_amount |-> 0,
         final_amount |-> ToDecimal2(finalAmount(c.totalAmount, c.deliveryFee, tax), eFinal),
         payment_status |-> "pending",
         delivered_at |-> NULL,
         updated_at |-> now]

\* order numbers of committed rows and of rows open transactions inserted
usedNumbers == {o.order_number : o \in orders}
                  \cup UNION {{o.order_number : o \in tx[q].order} : q \in Procs}

\* generateOrderNumber(): six digits of the time and three random digits.
\* The values are interchangeable: a number is any used one, or the least
\* unused one.
generateOrderNumber ==
    usedNumbers \cup {n \in OrderNumbers : \A m \in OrderNumbers \ usedNumbers : n <= m}

\* mutant: order_number has no unique index
InsertOrderNoUnique(p, orderNumber) ==
    /\ co[p].pc = "insert_order"
    /\ orderNumber \in generateOrderNumber
    /\ nextOrderId' = nextOrderId + 1
    /\ \E eTax \in FloatErr, eFinal \in FloatErr :
          /\ co' = [co EXCEPT ![p].pc = "insert_item", ![p].orderId = nextOrderId,
                              ![p].orderNumber = orderNumber]
          /\ tx' = [tx EXCEPT ![p].order = {newOrder(p, orderNumber, eTax, eFinal)}]
    /\ UNCHANGED <<restaurants, food_items, nextFoodId, orders, order_items,
                   nextItemId, cart_items, nextCartId, tr, ca, emitted,
                   catalogOps, cartOps, transitions, rd, cr>>

\* Lines 97-115: generateOrderNumber() and INSERT INTO orders.  The
\* auto-increment value is consumed even when the statement fails; a
\* committed row with the same order_number makes it fail (ER_DUP_ENTRY), an
\* uncommitted one makes it wait.
InsertOrder(p, orderNumber) ==
    /\ co[p].pc = "insert_order"
    /\ orderNumber \in generateOrderNumber
    /\ \A q \in Procs \ {p} : ~numberPendingIn(q, orderNumber)
    /\ nextOrderId' = nextOrderId + 1
    /\ IF \E o \in orders : o.order_number = orderNumber
       THEN /\ co' = [co EXCEPT ![p].pc = "rollback", ![p].err = 400,
                                ![p].orderNumber = orderNumber]
            /\ tx' = tx
       ELSE \E eTax \in FloatErr, eFinal \in FloatErr :
            /\ co' = [co EXCEPT ![p].pc = "insert_item", ![p].orderId = nextOrderId,
                                ![p].orderNumber = orderNumber]
            /\ tx' = [tx EXCEPT ![p].order = {newOrder(p, orderNumber, eTax, eFinal)}]
    /\ UNCHANGED <<restaurants, food_items, nextFoodId, orders, order_items,
                   nextItemId, cart_items, nextCartId, tr, ca, emitted,
                   catalogOps, cartOps, transitions, rd, cr>>

\* mutant: the INSERT runs outside the transaction (on the pool) and is
\* visible at once
InsertOrderItemOnPool(p) ==
    /\ co[p].pc = "insert_item"
    /\ waitsFor(p) = {}
    /\ LET item == co[p].orderItems[co[p].k] IN
       IF item.food_item_id \notin DOMAIN food_items
       THEN /\ co' = [co EXCEPT ![p].pc = "rollback", ![p].err = 400]
            /\ UNCHANGED <<tx, nextItemId, order_items>>
       ELSE /\ co' = [co EXCEPT ![p].pc = "update_count"]
            /\ nextItemId' = nextItemId + 1
            /\ order_items' = order_items \cup
                                 {[id |-> nextItemId, order_id |-> co[p].orderId,
                                   food_item_id |-> item.food_item_id,
                                   quantity |-> item.quantity,
                                   unit_price |-> item.unit_price,
                                   total_price |-> ToDecimal2(item.total_price, 1)]}
            /\ tx' = [tx EXCEPT ![p].slock = @ \cup {item.food_item_id}]
    /\ UNCHANGED <<restaurants, food_items, nextFoodId, orders, nextOrderId,
                   cart_items, nextCartId, tr, ca, emitted,
                   catalogOps, cartOps, transitions, rd, cr>>

\* Lines 119-122: INSERT INTO order_items for orderItems[k].  The foreign key
\* on food_item_id is checked against the current food_items row, which is
\* share-locked; a missing row fails the statement (ER_NO_REFERENCED_ROW_2).
InsertOrderItem(p) ==
    /\ co[p].pc = "insert_item"
    /\ waitsFor(p) = {}
    /\ LET item == co[p].orderItems[co[p].k] IN
       IF item.food_item_id \notin DOMAIN food_items
       THEN /\ co' = [co EXCEPT ![p].pc = "rollback", ![p].err = 400]
            /\ UNCHANGED <<tx, nextItemId>>
       ELSE /\ co' = [co EXCEPT ![p].pc = "update_count"]
            /\ nextItemId' = nextItemId + 1
            /\ tx' = [tx EXCEPT
                 ![p].lines = @ \cup {[id |-> nextItemId, order_id |-> co[p].orderId,
                                       food_item_id |-> item.food_item_id,
                                       quantity |-> item.quantity,
                                       unit_price |-> item.unit_price,
                                       total_price |-> ToDecimal2(item.total_price, 1)]},
                 ![p].slock = @ \cup {item.food_item_id}]
    /\ UNCHANGED <<restaurants, food_items, nextFoodId, orders, nextOrderId, order_items,
                   cart_items, nextCartId, tr, ca, emitted,
                   catalogOps, cartOps, transitions, rd, cr>>

\* mutant: the UPDATE runs on the pool, outside the transaction
UpdateTotalOrdersOnPool(p) ==
    /\ co[p].pc = "update_count"
    /\ waitsFor(p) = {}
    /\ LET item == co[p].orderItems[co[p].k] IN
       food_items' = [food_items EXCEPT ![item.food_item_id].total_orders = @ + item.quantity]
    /\ co' = [co EXCEPT ![p].k = @ + 1,
                        ![p].pc = IF co[p].k = Len(co[p].orderItems)
                                  THEN "clear_cart" ELSE "insert_item"]
    /\ UNCHANGED <<restaurants, nextFoodId, orders, nextOrderId, order_items,
                   nextItemId, cart_items, nextCartId, tx, tr, ca, emitted,
                   catalogOps, cartOps, transitions, rd, cr>>

\* Lines 125-128: UPDATE food_items SET total_orders = total_orders + ?.
\* Takes the exclusive lock of the row; the new value becomes visible at
\* COMMIT.  When orderItems is exhausted the loop ends.
UpdateTotalOrders(p) ==
    /\ co[p].pc = "update_count"
    /\ waitsFor(p) = {}
    /\ LET item == co[p].orderItems[co[p].k] IN
       tx' = [tx EXCEPT ![p].incs[item.food_item_id] = @ + item.quantity,
                        ![p].xlock = @ \cup {item.food_item_id}]
    /\ co' = [co EXCEPT ![p].k = @ + 1,
                        ![p].pc = IF co[p].k = Len(co[p].orderItems)
                                  THEN "clear_cart" ELSE "insert_item"]
    /\ UNCHANGED <<restaurants, food_items, nextFoodId, orders, nextOrderId, order_items,
                   nextItemId, cart_items, nextCartId, tr, ca, emitted,
                   catalogOps, cartOps, transitions, rd, cr>>

\* A statement of p waits in a lock cycle: InnoDB fails it (ER_LOCK_DEADLOCK)
\* and the handler's catch block runs.
DeadlockVictim(p) ==
    /\ co[p].pc \in {"insert_item", "update_count"}
    /\ deadlocked(p)
    /\ co' = [co EXCEPT ![p].pc = "rollback", ![p].err = 500]
    /\ UNCHANGED <<restaurants, food_items, nextFoodId, orders, nextOrderId, order_items,
                   nextItemId, cart_items, nextCartId, tx, tr, ca, emitted,
                   catalogOps, cartOps, transitions, rd, cr>>

\* cart rows an open transaction has deleted (locked until it ends)
cartLocked(id) == \E q \in Procs : id \in tx[q].cartDel

\* mutant: the DELETE has no join, it empties the customer's whole cart
ClearCartWholeCart(p) ==
    /\ co[p].pc = "clear_cart"
    /\ tx' = [tx EXCEPT ![p].cartDel =
                {ci.id : ci \in {c \in cart_items : c.customer_id = co[p].customer_id}}]
    /\ co' = [co EXCEPT ![p].pc = "commit"]
    /\ UNCHANGED <<restaurants, food_items, nextFoodId, orders, nextOrderId, order_items,
                   nextItemId, cart_items, nextCartId, tr, ca, emitted,
                   catalogOps, cartOps, transitions, rd, cr>>

\* Lines 131-135: DELETE ci FROM cart_items ci JOIN food_items fi ... WHERE
\* ci.customer_id = ? AND fi.restaurant_id = ?
ClearCart(p) ==
    /\ co[p].pc = "clear_cart"
    /\ tx' = [tx EXCEPT ![p].cartDel =
                {ci.id : ci \in {c \in cart_items :
                      /\ c.customer_id = co[p].customer_id
                      /\ c.food_item_id \in DOMAIN food_items
                      /\ food_items[c.food_item_id].restaurant_id = co[p].restaurant_id}}]
    /\ co' = [co EXCEPT ![p].pc = "commit"]
    /\ UNCHANGED <<restaurants, food_items, nextFoodId, orders, nextOrderId, order_items,
                   nextItemId, cart_items, nextCartId, tr, ca, emitted,
                   catalogOps, cartOps, transitions, rd, cr>>

\* Line 137: connection.commit() makes every write of the transaction visible
\* at once and releases its locks.
Commit(p) ==
    /\ co[p].pc = "commit"
    /\ orders' = orders \cup tx[p].order
    /\ order_items' = order_items \cup tx[p].lines
    /\ food_items' = [i \in DOMAIN food_items |->
                        [food_items[i] EXCEPT !.total_orders = @ + tx[p].incs[i]]]
    /\ cart_items' = {c \in cart_items : c.id \notin tx[p].cartDel}
    /\ tx' = [tx EXCEPT ![p] = NoTx]
    /\ co' = [co EXCEPT ![p].pc = "respond"]
    /\ UNCHANGED <<restaurants, nextFoodId, nextOrderId, nextItemId, nextCartId,
                   tr, ca, emitted, catalogOps, cartOps, transitions, rd, cr>>

\* Lines 139-184: the two SELECTs of the response, the new_order event to
\* the restaurant's room, the 201 response; finally connection.release().
Respond(p) ==
    /\ co[p].pc = "respond"
    /\ emitted' = Append(emitted,
                    [room |-> <<"restaurant", co[p].restaurant_id>>,
                     event |-> "new_order",
                     orderId |-> co[p].orderId,
                     orderNumber |-> co[p].orderNumber,
                     totalAmount |-> finalAmount(co[p].totalAmount, co[p].deliveryFee,
                                                 taxAmount(co[p].totalAmount)),
                     itemCount |-> Len(co[p].items)])
    /\ co' = [co EXCEPT ![p] = IdleCo]
    /\ UNCHANGED <<restaurants, food_items, nextFoodId, orders, nextOrderId, order_items,
                   nextItemId, cart_items, nextCartId, tx, tr, ca,
                   catalogOps, cartOps, transitions, rd, cr>>

\* Lines 139-176 when a statement after the commit throws: one of the two
\* SELECTs fails, or the socket.io handle is missing or its emit throws.  The
\* statement is inside the try block, so the catch block runs with the error
\* (its rollback finds nothing to undo) and no event is emitted.
RespondThrows(p) ==
    /\ co[p].pc = "respond"
    /\ co' = [co EXCEPT ![p].pc = "rollback", ![p].err = 500]
    /\ UNCHANGED <<restaurants, food_items, nextFoodId, orders, nextOrderId, order_items,
                   nextItemId, cart_items, nextCartId, tx, tr, ca, emitted,
                   catalogOps, cartOps, transitions, rd, cr>>

\* mutant: the restaurant is told of the order from the catch block as well
RollbackNotifying(p) ==
    /\ co[p].pc = "rollback"
    /\ tx' = [tx EXCEPT ![p] = NoTx]
    /\ emitted' = Append(emitted,
                    [room |-> <<"restaurant", co[p].restaurant_id>>,
                     event |-> "new_order",
                     orderId |-> co[p].orderId,
                     orderNumber |-> co[p].orderNumber,
                     totalAmount |-> 0,
                     itemCount |-> Len(co[p].items)])
    /\ co' = [co EXCEPT ![p] = IdleCo]
    /\ UNCHANGED <<restaurants, food_items, nextFoodId, orders, nextOrderId, order_items,
                   nextItemId, cart_items, nextCartId, tr, ca,
                   catalogOps, cartOps, transitions, rd, cr>>

\* Lines 186-191: catch: connection.rollback() drops the uncommitted writes
\* and locks, the error goes to the error handler, connection.release().
Rollback(p) ==
    /\ co[p].pc = "rollback"
    /\ tx' = [tx EXCEPT ![p] = NoTx]
    /\ co' = [co EXCEPT ![p] = IdleCo]
    /\ UNCHANGED <<restaurants, food_items, nextFoodId, orders, nextOrderId, order_items,
                   nextItemId, cart_items, nextCartId, tr, ca, emitted,
                   catalogOps, cartOps, transitions, rd, cr>>

\* ------------------------------------------------------- /api/food (catalog)

\* SELECT id FROM restaurants WHERE cook_id = ? AND is_active = true
activeRestaurantsOf(cook) ==
    {r \in DOMAIN restaurants : restaurants[r].cook_id = cook /\ restaurants[r].is_active}

\* SELECT fi.id FROM food_items fi JOIN restaurants r ... WHERE fi.id = ? AND r.cook_id = ?
ownsFoodItem(cook, foodItemId) ==
    /\ foodItemId \in DOMAIN food_items
    /\ restaurants[food_items[foodItemId].restaurant_id].cook_id = cook

\* POST /api/food: the cook's restaurant is restaurants[0] of the SELECT, the
\* row with the lowest id.
CreateFoodItem(cook, price, is_available) ==
    /\ user_type(cook) = "cook"
    /\ activeRestaurantsOf(cook) # {}
    /\ LET restaurantId == CHOOSE r \in activeRestaurantsOf(cook) :
                               \A r2 \in activeRestaurantsOf(cook) : r <= r2
       IN  food_items' = [i \in DOMAIN food_items \cup {nextFoodId} |->
                            IF i = nextFoodId
                            THEN [restaurant_id |-> restaurantId, price |-> price,
                                  is_available |-> is_available, total_orders |-> 0]
                            ELSE food_items[i]]
    /\ nextFoodId' = nextFoodId + 1
    /\ catalogOps' = catalogOps + 1
    /\ UNCHANGED <<restaurants, orders, nextOrderId, order_items, nextItemId, cart_items,
                   nextCartId, co, tx, tr, ca, emitted, cartOps,
                   transitions, rd, cr>>

\* mutant: the new price is carried to the lines of the orders placed
UpdateFoodItemRepricing(cook, foodItemId, price, is_available) ==
    /\ user_type(cook) = "cook"
    /\ ownsFoodItem(cook, foodItemId)
    /\ ~lockedByAny(foodItemId)
    /\ food_items' = [food_items EXCEPT ![foodItemId].price = price,
                                        ![foodItemId].is_available = is_available]
    /\ order_items' = {IF l.food_item_id = foodItemId
                       THEN [l EXCEPT !.unit_price = price] ELSE l : l \in order_items}
    /\ catalogOps' = catalogOps + 1
    /\ UNCHANGED <<restaurants, nextFoodId, orders, nextOrderId, nextItemId,
                   cart_items, nextCartId, co, tx, tr, ca, emitted,
                   cartOps, transitions, rd, cr>>

\* PUT /api/food/:id with price and/or is_available in the body.  The UPDATE
\* waits while an open transaction holds a lock on the row.
UpdateFoodItem(cook, foodItemId, price, is_available) ==
    /\ user_type(cook) = "cook"
    /\ ownsFoodItem(cook, foodItemId)
    /\ ~lockedByAny(foodItemId)
    /\ food_items' = [food_items EXCEPT ![foodItemId].price = price,
                                        ![foodItemId].is_available = is_available]
    /\ catalogOps' = catalogOps + 1
    /\ UNCHANGED <<restaurants, nextFoodId, orders, nextOrderId, order_items, nextItemId,
                   cart_items, nextCartId, co, tx, tr, ca, emitted,
                   cartOps, transitions, rd, cr>>

\* DELETE /api/food/:id.  DELETE FROM food_items removes, by the ON DELETE
\* CASCADE foreign keys of the schema, the order_items and cart_items rows
\* that reference the item.  It waits for locks of open transactions.
DeleteFoodItem(cook, foodItemId) ==
    /\ user_type(cook) = "cook"
    /\ ownsFoodItem(cook, foodItemId)
    /\ ~lockedByAny(foodItemId)
    /\ \A c \in cart_items : c.food_item_id = foodItemId => ~cartLocked(c.id)
    /\ food_items' = [i \in DOMAIN food_items \ {foodItemId} |-> food_items[i]]
    /\ order_items' = {oi \in order_items : oi.food_item_id # foodItemId}
    /\ cart_items' = {c \in cart_items : c.food_item_id # foodItemId}
    /\ catalogOps' = catalogOps + 1
    /\ UNCHANGED <<restaurants, nextFoodId, orders, nextOrderId, nextItemId,
                   nextCartId, co, tx, tr, ca, emitted,
                   cartOps, transitions, rd, cr>>

\* ---------------------------------------------------- /api/users/cart (cart)

\* POST /api/users/cart, lines 32-38: SELECT id, quantity FROM cart_items
\* WHERE customer_id = ? AND food_item_id = ?
AddToCartSelect(a, customer_id, food_item_id, quantity) ==
    /\ ca[a].pc = "idle"
    /\ cartOps' = cartOps + 1
    /\ LET existing == {c \in cart_items : c.customer_id = customer_id
                                           /\ c.food_item_id = food_item_id}
       IN  ca' = [ca EXCEPT ![a] =
                    [pc |-> "write", customer_id |-> customer_id,
                     food_item_id |-> food_item_id, quantity |-> quantity,
                     existing |-> IF existing = {} THEN 0
                                  ELSE (CHOOSE c \in existing : TRUE).id]]
    /\ UNCHANGED <<restaurants, food_items, nextFoodId, orders, nextOrderId, order_items,
                   nextItemId, cart_items, nextCartId, co, tx, tr,
                   emitted, catalogOps, transitions, rd, cr>>

\* Lines 40-52: UPDATE quantity of the row found, or INSERT a new row.  The
\* INSERT fails on the unique key (customer_id, food_item_id) and on the
\* foreign key to food_items; the auto-increment value is consumed anyway.
AddToCartWrite(a) ==
    /\ ca[a].pc = "write"
    /\ IF ca[a].existing # 0
       THEN /\ ~cartLocked(ca[a].existing)
            /\ cart_items' = {IF c.id = ca[a].existing
                              THEN [c EXCEPT !.quantity = @ + ca[a].quantity] ELSE c
                              : c \in cart_items}
            /\ UNCHANGED nextCartId
       ELSE /\ \A c \in cart_items :
                  c.customer_id = ca[a].customer_id /\ c.food_item_id = ca[a].food_item_id
                     => ~cartLocked(c.id)
            /\ nextCartId' = nextCartId + 1
            /\ IF \/ ca[a].food_item_id \notin DOMAIN food_items
                  \/ \E c \in cart_items : c.customer_id = ca[a].customer_id
                                           /\ c.food_item_id = ca[a].food_item_id
               THEN UNCHANGED cart_items
               ELSE cart_items' = cart_items \cup
                       {[id |-> nextCartId, customer_id |-> ca[a].customer_id,
                         food_item_id |-> ca[a].food_item_id,
                         quantity |-> ca[a].quantity]}
    /\ ca' = [ca EXCEPT ![a] = IdleCa]
    /\ UNCHANGED <<restaurants, food_items, nextFoodId, orders, nextOrderId, order_items,
                   nextItemId, co, tx, tr, emitted, catalogOps,
                   cartOps, transitions, rd, cr>>

\* DELETE /api/users/cart/:id: DELETE FROM cart_items WHERE id = ? AND
\* customer_id = ?
RemoveFromCart(customer_id, id) ==
    /\ user_type(customer_id) = "customer"
    /\ \E c \in cart_items : c.id = id /\ c.customer_id = customer_id
    /\ ~cartLocked(id)
    /\ cart_items' = {c \in cart_items : ~(c.id = id /\ c.customer_id = customer_id)}
    /\ cartOps' = cartOps + 1
    /\ UNCHANGED <<restaurants, food_items, nextFoodId, orders, nextOrderId, order_items,
                   nextItemId, nextCartId, co, tx, tr, ca, emitted,
                   catalogOps, transitions, rd, cr>>

\* ------------------------------------------ PATCH /api/orders/:id/status

\* SELECT id FROM restaurants WHERE cook_id = ?
restaurantsOf(cook) == {r \in DOMAIN restaurants : restaurants[r].cook_id = cook}

\* mutant: any cook passes, whatever restaurant the order belongs to
mayUpdateAnyCook(caller, order) == user_type(caller) \in {"cook", "admin"}

\* Lines 369-381: a cook passes when restaurants[0] of the SELECT (the row
\* with the lowest id) is the order's restaurant, an admin always passes,
\* anyone else is refused.
mayUpdate(caller, order) ==
    IF user_type(caller) = "cook"
    THEN /\ restaurantsOf(caller) # {}
         /\ order.restaurant_id =
               (CHOOSE r \in restaurantsOf(caller) : \A r2 \in restaurantsOf(caller) : r <= r2)
    ELSE user_type(caller) = "admin"

\* Lines 344-387: the validation result, the order SELECT, the permission
\* check and updateData.  A refusal throws (or answers) 400, 404 or 403.
\* The request arrives one tick after the last one: new Date() is now + 1.
UpdateStatusBegin(t, caller, orderId, status) ==
    /\ tr[t].pc = "idle"
    /\ transitions' = transitions + 1
    /\ LET found == {o \in orders : o.id = orderId}
           err == IF status \notin OrderStatus THEN 400
                  ELSE IF found = {} THEN 404
                  ELSE IF ~mayUpdate(caller, CHOOSE o \in found : TRUE) THEN 403
                  ELSE 0
       IN  tr' = [tr EXCEPT ![t] =
                   IF err # 0
                   THEN [IdleTr EXCEPT !.pc = "fail", !.err = err, !.caller = caller,
                                       !.orderId = orderId, !.status = status]
                   ELSE LET order == CHOOSE o \in found : TRUE IN
                        [pc |-> "update", caller |-> caller, err |-> 0,
                         orderId |-> orderId, status |-> status,
                         delivered_at |-> IF status = "delivered"
                                          THEN now + 1 ELSE NULL,
                         customer_id |-> order.customer_id,
                         order_number |-> order.order_number]]
    /\ UNCHANGED <<restaurants, food_items, nextFoodId, orders, nextOrderId, order_items,
                   nextItemId, cart_items, nextCartId, co, tx, ca, emitted,
                   catalogOps, cartOps, rd, cr>>

\* The refusal reaches the client: the 400 answer of the validation result,
\* or the AppError answered by the error handler.
UpdateStatusFail(t) ==
    /\ tr[t].pc = "fail"
    /\ tr' = [tr EXCEPT ![t] = IdleTr]
    /\ UNCHANGED <<restaurants, food_items, nextFoodId, orders, nextOrderId, order_items,
                   nextItemId, cart_items, nextCartId, co, tx, ca, emitted,
                   catalogOps, cartOps, transitions, rd, cr>>

\* mutant: a delivered order is also marked paid
updatedOrderPaid(o, status, delivered_at) ==
    LET set == [o EXCEPT !.status = status, !.delivered_at = delivered_at,
                         !.payment_status = IF status = "delivered" THEN "paid" ELSE @]
    IN  IF set = o THEN o ELSE [set EXCEPT !.updated_at = now]

\* The row an UPDATE of orders leaves: the columns set, and updated_at
\* (ON UPDATE CURRENT_TIMESTAMP) when a column changed its value.
updatedOrder(o, status, delivered_at) ==
    LET set == [o EXCEPT !.status = status, !.delivered_at = delivered_at]
    IN  IF set = o THEN o ELSE [set EXCEPT !.updated_at = now]

\* mutant: the UPDATE is refused when another request has written the same
\* order and not answered yet
UpdateStatusWriteFirstWins(t) ==
    /\ tr[t].pc = "update"
    /\ IF \E t2 \in TProcs \ {t} : tr[t2].pc = "emit" /\ tr[t2].orderId = tr[t].orderId
       THEN /\ tr' = [tr EXCEPT ![t].pc = "fail", ![t].err = 409]
            /\ UNCHANGED orders
       ELSE /\ orders' = {IF o.id = tr[t].orderId
                          THEN updatedOrder(o, tr[t].status,
                                            IF tr[t].status = "delivered"
                                            THEN tr[t].delivered_at ELSE o.delivered_at)
                          ELSE o : o \in orders}
            /\ tr' = [tr EXCEPT ![t].pc = "emit"]
    /\ UNCHANGED <<restaurants, food_items, nextFoodId, nextOrderId, order_items,
                   nextItemId, cart_items, nextCartId, co, tx, ca,
                   emitted, catalogOps, cartOps, transitions, rd, cr>>

\* mutant: an order that is delivered or cancelled keeps its status
UpdateStatusWriteForwardOnly(t) ==
    /\ tr[t].pc = "update"
    /\ orders' = {IF o.id = tr[t].orderId /\ o.status \notin {"delivered", "cancelled"}
                  THEN updatedOrder(o, tr[t].status,
                                    IF tr[t].status = "delivered"
                                    THEN tr[t].delivered_at ELSE o.delivered_at)
                  ELSE o : o \in orders}
    /\ tr' = [tr EXCEPT ![t].pc = "emit"]
    /\ UNCHANGED <<restaurants, food_items, nextFoodId, nextOrderId, order_items,
                   nextItemId, cart_items, nextCartId, co, tx, ca,
                   emitted, catalogOps, cartOps, transitions, rd, cr>>

\* mutant: delivered_at is left out of the UPDATE
UpdateStatusWriteNoStamp(t) ==
    /\ tr[t].pc = "update"
    /\ orders' = {IF o.id = tr[t].orderId
                  THEN updatedOrder(o, tr[t].status, o.delivered_at)
                  ELSE o : o \in orders}
    /\ tr' = [tr EXCEPT ![t].pc = "emit"]
    /\ UNCHANGED <<restaurants, food_items, nextFoodId, nextOrderId, order_items,
                   nextItemId, cart_items, nextCartId, co, tx, ca,
                   emitted, catalogOps, cartOps, transitions, rd, cr>>

\* Lines 389-396: UPDATE orders SET status = ?[, delivered_at = ?] WHERE id = ?
UpdateStatusWrite(t) ==
    /\ tr[t].pc = "update"
    /\ orders' = {IF o.id = tr[t].orderId
                  THEN updatedOrder(o, tr[t].status,
                                    IF tr[t].status = "delivered"
                                    THEN tr[t].delivered_at ELSE o.delivered_at)
                  ELSE o : o \in orders}
    /\ tr' = [tr EXCEPT ![t].pc = "emit"]
    /\ UNCHANGED <<restaurants, food_items, nextFoodId, nextOrderId, order_items,
                   nextItemId, cart_items, nextCartId, co, tx, ca,
                   emitted, catalogOps, cartOps, transitions, rd, cr>>

\* mutant: the event goes to the room of the caller
UpdateStatusEmitToCaller(t) ==
    /\ tr[t].pc = "emit"
    /\ emitted' = Append(emitted,
                    [room |-> <<"user", tr[t].caller>>,
                     event |-> "order_status_changed",
                     orderId |-> tr[t].orderId,
                     status |-> tr[t].status,
                     orderNumber |-> tr[t].order_number])
    /\ tr' = [tr EXCEPT ![t] = IdleTr]
    /\ UNCHANGED <<restaurants, food_items, nextFoodId, orders, nextOrderId, order_items,
                   nextItemId, cart_items, nextCartId, co, tx, ca,
                   catalogOps, cartOps, transitions, rd, cr>>

\* Lines 398-409: the order_status_changed event to the customer's room and
\* the 200 response.
UpdateStatusEmit(t) ==
    /\ tr[t].pc = "emit"
    /\ emitted' = Append(emitted,
                    [room |-> <<"user", tr[t].customer_id>>,
                     event |-> "order_status_changed",
                     orderId |-> tr[t].orderId,
                     status |-> tr[t].status,
                     orderNumber |-> tr[t].order_number])
    /\ tr' = [tr EXCEPT ![t] = IdleTr]
    /\ UNCHANGED <<restaurants, food_items, nextFoodId, orders, nextOrderId, order_items,
                   nextItemId, cart_items, nextCartId, co, tx, ca,
                   catalogOps, cartOps, transitions, rd, cr>>

\* Lines 398-404 when the socket.io handle is missing or its emit throws:
\* the error leaves the handler, after the UPDATE, and the error handler
\* answers 500.
UpdateStatusEmitThrows(t) ==
    /\ tr[t].pc = "emit"
    /\ tr' = [tr EXCEPT ![t].pc = "fail", ![t].err = 500]
    /\ UNCHANGED <<restaurants, food_items, nextFoodId, orders, nextOrderId, order_items,
                   nextItemId, cart_items, nextCartId, co, tx, ca, emitted,
                   catalogOps, cartOps, transitions, rd, cr>>

\* ------------------------------------------ GET /api/orders, GET /api/orders/:id

\* const { page = 1, limit = 10, status } = req.query
DefaultLimit == 10
\* the first page of the default size, and the second page of size one
Paging == {[page |-> 1, limit |-> DefaultLimit], [page |-> 2, limit |-> 1]}
\* no status in the query, or one of the enumeration
StatusFilters == {"", "delivered"}

\* rows in the order of ORDER BY o.created_at DESC: created_at is the time of
\* the INSERT, which ascends with the auto-increment id
RECURSIVE descending(_)
descending(rows) ==
    IF rows = {} THEN <<>>
    ELSE LET first == CHOOSE o \in rows : \A o2 \in rows : o2.id <= o.id
         IN  <<first>> \o descending(rows \ {first})

\* LIMIT ? OFFSET ? on the rows in order
limitOffset(rows, limit, offset) ==
    SubSeq(rows, offset + 1, IF offset + limit < Len(rows) THEN offset + limit ELSE Len(rows))

\* mutant: the customer's rows are not narrowed to the caller's own
whereClauseAnyCustomer(caller, status) ==
    {o \in orders :
        /\ user_type(caller) = "cook" =>
              o.restaurant_id =
                 (CHOOSE r \in restaurantsOf(caller) : \A r2 \in restaurantsOf(caller) : r <= r2)
        /\ status # "" => o.status = status}

\* Lines 202-229: the rows whereClause and params select: the caller's own
\* for a customer, those of restaurants[0] for a cook, all for anyone else,
\* and of these the ones of the status asked for, if any.
whereClause(caller, status) ==
    {o \in orders :
        /\ user_type(caller) = "customer" => o.customer_id = caller
        /\ user_type(caller) = "cook" =>
              o.restaurant_id =
                 (CHOOSE r \in restaurantsOf(caller) : \A r2 \in restaurantsOf(caller) : r <= r2)
        /\ status # "" => o.status = status}

\* One read request is followed, taken at any moment: a read changes no
\* table, so its answer does not depend on the reads before it.
mayRead == rd.pc = "idle"

\* GET /api/orders, lines 199-251: a cook without a restaurant is answered at
\* once with no order; otherwise the SELECT of the page.
ListOrdersSelect(caller, status, page, limit) ==
    /\ mayRead
    /\ rd' = IF user_type(caller) = "cook" /\ restaurantsOf(caller) = {}
             THEN [IdleRd EXCEPT !.pc = "done", !.route = "list", !.caller = caller,
                                 !.status = status, !.page = page, !.limit = limit,
                                 !.code = 200]
             ELSE [IdleRd EXCEPT !.pc = "count", !.route = "list", !.caller = caller,
                                 !.status = status, !.page = page, !.limit = limit,
                                 !.orders = limitOffset(descending(whereClause(caller, status)),
                                                        limit, (page - 1) * limit)]
    /\ UNCHANGED <<restaurants, food_items, nextFoodId, orders, nextOrderId, order_items,
                   nextItemId, cart_items, nextCartId, co, tx, tr, ca, emitted,
                   catalogOps, cartOps, transitions, cr>>

\* Lines 253-268: SELECT COUNT(*) with the same whereClause, and the answer.
ListOrdersCount ==
    /\ rd.pc = "count"
    /\ rd' = [rd EXCEPT !.pc = "done", !.code = 200,
                        !.totalCount = Cardinality(whereClause(rd.caller, rd.status))]
    /\ UNCHANGED <<restaurants, food_items, nextFoodId, orders, nextOrderId, order_items,
                   nextItemId, cart_items, nextCartId, co, tx, tr, ca, emitted,
                   catalogOps, cartOps, transitions, cr>>

\* mutant: a customer passes for any order
mayViewAnyCustomer(caller, order) ==
    IF user_type(caller) = "cook"
    THEN /\ restaurantsOf(caller) # {}
         /\ order.restaurant_id =
               (CHOOSE r \in restaurantsOf(caller) : \A r2 \in restaurantsOf(caller) : r <= r2)
    ELSE TRUE

\* Lines 304-318: a customer passes for an order of their own, a cook when
\* restaurants[0] of the SELECT is the order's restaurant, anyone else always.
mayView(caller, order) ==
    IF user_type(caller) = "customer" THEN order.customer_id = caller
    ELSE IF user_type(caller) = "cook"
    THEN /\ restaurantsOf(caller) # {}
         /\ order.restaurant_id =
               (CHOOSE r \in restaurantsOf(caller) : \A r2 \in restaurantsOf(caller) : r <= r2)
    ELSE TRUE

\* GET /api/orders/:id, lines 275-318: the order SELECT and the permission
\* check; 404 when there is no such order, 403 when the caller may not see it.
GetOrderSelect(caller, orderId) ==
    /\ mayRead
    /\ LET found == {o \in orders : o.id = orderId}
           code == IF found = {} THEN 404
                   ELSE IF ~mayView(caller, CHOOSE o \in found : TRUE) THEN 403
                   ELSE 0
       IN  rd' = IF code # 0
                 THEN [IdleRd EXCEPT !.pc = "done", !.route = "get", !.caller = caller,
                                     !.orderId = orderId, !.code = code]
                 ELSE [IdleRd EXCEPT !.pc = "items", !.route = "get", !.caller = caller,
                                     !.orderId = orderId,
                                     !.orders = <<CHOOSE o \in found : TRUE>>]
    /\ UNCHANGED <<restaurants, food_items, nextFoodId, orders, nextOrderId, order_items,
                   nextItemId, cart_items, nextCartId, co, tx, tr, ca, emitted,
                   catalogOps, cartOps, transitions, cr>>

\* Lines 320-333: SELECT oi.* FROM order_items oi JOIN food_items fi ... WHERE
\* oi.order_id = ?, and the answer.
GetOrderItems ==
    /\ rd.pc = "items"
    /\ rd' = [rd EXCEPT !.pc = "done", !.code = 200,
                        !.items = {l \in order_items : /\ l.order_id = rd.orderId
                                                       /\ l.food_item_id \in DOMAIN food_items}]
    /\ UNCHANGED <<restaurants, food_items, nextFoodId, orders, nextOrderId, order_items,
                   nextItemId, cart_items, nextCartId, co, tx, tr, ca, emitted,
                   catalogOps, cartOps, transitions, cr>>

\* ------------------------------------------------------ socket.io handlers

\* what a connected client may send with an order_update message: the
\* handler reads customerId and restaurantId and passes the whole object on
OrderUpdateData ==
    [customerId : Customers, restaurantId : {1}, orderId : {1},
     status : {"delivered", "cancelled"}, orderNumber : {1}]

\* events the order_update handler has emitted to restaurant rooms
relayed == Cardinality({n \in DOMAIN emitted : emitted[n].event = "new_order_update"})

\* server.js lines 113-118: socket.on('order_update', data => ...), for any
\* connected socket (connections are not authenticated): the data go as
\* order_status_changed to the room of data.customerId and as
\* new_order_update to the room of data.restaurantId.
OrderUpdate(data) ==
    /\ emitted' = emitted \o
          <<[room |-> <<"user", data.customerId>>,
             event |-> "order_status_changed",
             orderId |-> data.orderId,
             status |-> data.status,
             orderNumber |-> data.orderNumber],
            [room |-> <<"restaurant", data.restaurantId>>,
             event |-> "new_order_update",
             orderId |-> data.orderId,
             status |-> data.status,
             orderNumber |-> data.orderNumber]>>
    /\ UNCHANGED <<restaurants, food_items, nextFoodId, orders, nextOrderId, order_items,
                   nextItemId, cart_items, nextCartId, co, tx, tr, ca,
                   catalogOps, cartOps, transitions, rd, cr>>

\* ------------------------------------------------- POST /api/restaurants

\* AUTO_INCREMENT of restaurants: no route deletes a restaurant and the
\* INSERT below does not fail, so the ids in the table are 1..n
nextRestaurantId == Cardinality(DOMAIN restaurants) + 1

\* admin.js lines 66-93: requireCook, the validation chain passed, SELECT id
\* FROM restaurants WHERE cook_id = ?; a cook for whom a row is found is
\* answered 400.
CreateRestaurantSelect(h, cook) ==
    /\ cr[h].pc = "idle"
    /\ user_type(cook) = "cook"
    /\ cr' = [cr EXCEPT ![h] =
                [pc |-> IF restaurantsOf(cook) # {} THEN "refuse" ELSE "insert",
                 cook_id |-> cook]]
    /\ UNCHANGED <<restaurants, food_items, nextFoodId, orders, nextOrderId, order_items,
                   nextItemId, cart_items, nextCartId, co, tx, tr, ca, emitted,
                   catalogOps, cartOps, transitions, rd>>

\* Lines 88-93: the 400 answer 'You already have a restaurant profile'.
CreateRestaurantRefuse(h) ==
    /\ cr[h].pc = "refuse"
    /\ cr' = [cr EXCEPT ![h] = IdleCr]
    /\ UNCHANGED <<restaurants, food_items, nextFoodId, orders, nextOrderId, order_items,
                   nextItemId, cart_items, nextCartId, co, tx, tr, ca, emitted,
                   catalogOps, cartOps, transitions, rd>>

\* Lines 95-111: INSERT INTO restaurants (cook_id, name, ...) on the pool,
\* the SELECT of the new row and the 201 answer.  is_active and delivery_fee
\* take their defaults; restaurants has no unique key on cook_id.
CreateRestaurantInsert(h) ==
    /\ cr[h].pc = "insert"
    /\ restaurants' = [r \in DOMAIN restaurants \cup {nextRestaurantId} |->
                         IF r \in DOMAIN restaurants THEN restaurants[r]
                         ELSE [cook_id |-> cr[h].cook_id, is_active |-> TRUE,
                               delivery_fee |-> 0]]
    /\ cr' = [cr EXCEPT ![h] = IdleCr]
    /\ UNCHANGED <<food_items, nextFoodId, orders, nextOrderId, order_items,
                   nextItemId, cart_items, nextCartId, co, tx, tr, ca, emitted,
                   catalogOps, cartOps, transitions, rd>>

\* ------------------------------------------------------------ specification

\* A request is taken by the first idle handler of its route (the handlers
\* of a route are interchangeable), while fewer than limit requests are in
\* flight.
mayBegin(h, seq, locals, limit) ==
    /\ Cardinality(inFlight) < limit
    /\ \E n \in 1..Len(seq) :
          /\ seq[n] = h
          /\ \A m \in 1..(n - 1) : locals[seq[m]].pc # "idle"

\* order inserts made, or still to be made by the handlers past validation
ordersBegun == (nextOrderId - 1) + Cardinality({q \in Procs : co[q].pc = "insert_order"})

\* calls begun that changed, or may still change, a table
callsMade == ordersBegun + catalogOps + cartOps + transitions

CreateOrderSteps ==
    \/ \E p \in Procs, n \in OrderNumbers : InsertOrder(p, n)
    \/ \E p \in Procs : InsertOrderItem(p)
    \/ \E p \in Procs : UpdateTotalOrders(p)
    \/ \E p \in Procs : ClearCart(p)
    \/ \E p \in Procs : Commit(p)
    \/ \E p \in Procs : Respond(p)
    \/ \E p \in Procs : Rollback(p)

UpdateStatusSteps ==
    \/ \E t \in TProcs : UpdateStatusFail(t)
    \/ \E t \in TProcs : UpdateStatusWrite(t)
    \/ \E t \in TProcs : UpdateStatusEmit(t)

\* Spec: every route that writes, one request at a time, at most MaxCalls
\* calls.
Next ==
    \/ \E p \in Procs :
          /\ mayBegin(p, PSeq, co, 1)
          /\ callsMade < MaxCalls
          /\ \E c \in Customers, r \in RestIds, items \in SampleItems :
                CreateOrderBegin(p, c, r, items)
    \/ CreateOrderSteps
    \/ /\ inFlight = {}
       /\ callsMade < MaxCalls
       /\ nextFoodId <= MaxFoodItems
       /\ \E k \in Cooks, price \in Prices, av \in BOOLEAN : CreateFoodItem(k, price, av)
    \/ /\ inFlight = {}
       /\ callsMade < MaxCalls
       /\ \E k \in Cooks, i \in FoodIds, price \in Prices, av \in BOOLEAN :
             UpdateFoodItem(k, i, price, av)
    \/ /\ inFlight = {}
       /\ callsMade < MaxCalls
       /\ \E k \in Cooks, i \in FoodIds : DeleteFoodItem(k, i)
    \/ \E a \in CProcs :
          /\ mayBegin(a, CSeq, ca, 1)
          /\ callsMade < MaxCalls
          /\ \E c \in Customers, i \in FoodIds, q \in 1..MaxQty : AddToCartSelect(a, c, i, q)
    \/ \E a \in CProcs : AddToCartWrite(a)
    \/ /\ inFlight = {}
       /\ callsMade < MaxCalls
       /\ \E c \in Customers, ci \in cart_items : RemoveFromCart(c, ci.id)
    \/ \E t \in TProcs :
          /\ mayBegin(t, TSeq, tr, 1)
          /\ callsMade < MaxCalls
          /\ \E u \in Users, o \in OrderIds, s \in OrderStatus \cup {"bogus"} :
                UpdateStatusBegin(t, u, o, s)
    \/ UpdateStatusSteps

Spec == Init /\ [][Next]_vars

\* SpecOrders: create-order requests, two at a time, while a cook may delete
\* a food item.
NextOrders ==
    \/ \E p \in Procs :
          /\ mayBegin(p, PSeq, co, Len(PSeq))
          /\ ordersBegun < MaxOrders
          /\ \E items \in SampleItems : CreateOrderBegin(p, "cust1", 1, items)
    \/ CreateOrderSteps
    \/ \E p \in Procs : DeadlockVictim(p)
    \/ /\ catalogOps < MaxCatalogOps
       /\ \E k \in Cooks, i \in FoodIds : DeleteFoodItem(k, i)

SpecOrders == Init /\ [][NextOrders]_vars

\* SpecStatus: status requests on the orders placed between them, each of
\* item 1 by cust1 (a request to restaurant 2 is refused).  Any request
\* arrives while no other is in flight; a second one arrives while the
\* first is in flight when it is a cook's or an administrator's, for an
\* order that exists (a refusal reads the tables and writes nothing, so its
\* place among the other requests' steps makes no difference).
NextStatus ==
    \/ /\ mayBegin(PSeq[1], PSeq, co, 1)
       /\ ordersBegun < MaxStatusOrders
       /\ \E r \in RestIds :
             CreateOrderBegin(PSeq[1], "cust1", r, <<[food_item_id |-> 1, quantity |-> 1]>>)
    \/ CreateOrderSteps
    \/ /\ inFlight = {}
       /\ transitions < MaxTransitions
       /\ \E u \in Users, o \in OrderIds, s \in OrderStatus \cup {"bogus"} :
             UpdateStatusBegin(TSeq[1], u, o, s)
    \/ \E t \in TProcs :
          /\ mayBegin(t, TSeq, tr, Len(TSeq))
          /\ \E t2 \in TProcs : tr[t2].pc \in {"update", "emit"}
          /\ transitions < MaxTransitions
          /\ \E u \in Cooks \cup Admins, o \in orders, s \in OrderStatus :
                UpdateStatusBegin(t, u, o.id, s)
    \/ UpdateStatusSteps

\* restaurant 1 sells items 1 and 2, restaurant 2 sells item 3
InitStatus ==
    /\ InitCommon
    /\ food_items = [i \in 1..3 |-> IF i = 1 THEN foodRow(1, 1000, TRUE)
                                    ELSE IF i = 2 THEN foodRow(1, 500, TRUE)
                                    ELSE foodRow(2, 70, TRUE)]
    /\ nextFoodId = 4

SpecStatus == InitStatus /\ [][NextStatus]_vars

\* SpecPricing: one create-order request at a time, with every request body
\* of the bounds, on menus of any price and availability.
InitPricing ==
    /\ InitCommon
    /\ \E p1 \in Prices, a1 \in BOOLEAN, a2 \in BOOLEAN :
          food_items = [i \in 1..3 |-> IF i = 1 THEN foodRow(1, p1, a1)
                                       ELSE IF i = 2 THEN foodRow(1, 500, a2)
                                       ELSE foodRow(2, 70, TRUE)]
    /\ nextFoodId = 4

NextPricing ==
    \/ /\ mayBegin(PSeq[1], PSeq, co, 1)
       /\ ordersBegun < MaxPricedOrders
       /\ \E r \in RestIds \cup {3}, items \in RequestItems :
             CreateOrderBegin(PSeq[1], "cust1", r, items)
    \/ CreateOrderSteps

SpecPricing == InitPricing /\ [][NextPricing]_vars

\* SpecDispatch: create-order requests of cust1 for item 1, two at a time,
\* and status requests of cust1 and of cook1, where any statement after the
\* commit of a create-order and the emit of a transition may throw.
NextDispatch ==
    \/ \E p \in Procs :
          /\ mayBegin(p, PSeq, co, Len(PSeq))
          /\ ordersBegun < MaxDispatchOrders
          /\ \E r \in RestIds :
                CreateOrderBegin(p, "cust1", r, <<[food_item_id |-> 1, quantity |-> 1]>>)
    \/ CreateOrderSteps
    \/ \E p \in Procs : RespondThrows(p)
    \/ /\ mayBegin(TSeq[1], TSeq, tr, Len(TSeq))
       /\ transitions < MaxDispatchCalls
       /\ \E u \in {"cust1", "cook1"}, o \in OrderIds, s \in {"delivered", "bogus"} :
             UpdateStatusBegin(TSeq[1], u, o, s)
    \/ UpdateStatusSteps
    \/ \E t \in TProcs : UpdateStatusEmitThrows(t)

SpecDispatch == Init /\ [][NextDispatch]_vars

\* SpecReads: each customer places one order, cust1 first, at either
\* restaurant; the administrator or cust1 asks to mark order 1 delivered; and
\* one GET request of any user is taken at any moment and followed to its
\* answer.  Restaurant 2 may not exist yet: then cook2 has no restaurant.
InitReads ==
    /\ \E rs \in {RestIds, {1}} :
          /\ restaurants = [r \in rs |-> SampleRestaurants[r]]
          /\ food_items = [i \in (IF 2 \in rs THEN {1, 3} ELSE {1}) |->
                              IF i = 1 THEN foodRow(1, 1000, TRUE) ELSE foodRow(2, 70, TRUE)]
    /\ nextFoodId = 4
    /\ orders = {}
    /\ nextOrderId = 1
    /\ order_items = {}
    /\ nextItemId = 1
    /\ cart_items = {}
    /\ nextCartId = 1
    /\ co = [p \in Procs |-> IdleCo]
    /\ tx = [p \in Procs |-> NoTx]
    /\ tr = [t \in TProcs |-> IdleTr]
    /\ ca = [a \in CProcs |-> IdleCa]
    /\ emitted = <<>>
    /\ catalogOps = 0
    /\ cartOps = 0
    /\ transitions = 0
    /\ rd = IdleRd
    /\ cr = [h \in RProcs |-> IdleCr]

NextReads ==
    /\ rd.pc # "done"
    /\ \/ /\ mayBegin(PSeq[1], PSeq, co, 1)
          /\ nextOrderId <= MaxOrders
          /\ Cardinality(orders) < Cardinality(Customers)
          /\ \E r \in RestIds :
                CreateOrderBegin(PSeq[1], IF orders = {} THEN "cust1" ELSE "cust2", r,
                                 <<[food_item_id |-> IF r = 1 THEN 1 ELSE 3, quantity |-> 1]>>)
       \/ CreateOrderSteps
       \/ /\ mayBegin(TSeq[1], TSeq, tr, 1)
          /\ transitions < MaxReadCalls
          /\ \E u \in {"admin", "cust1"} :
                UpdateStatusBegin(TSeq[1], u, 1, "delivered")
       \/ UpdateStatusSteps
       \/ \E u \in Users, s \in StatusFilters, pg \in Paging :
             ListOrdersSelect(u, s, pg.page, pg.limit)
       \/ ListOrdersCount
       \/ \E u \in Users, o \in OrderIds : GetOrderSelect(u, o)
       \/ GetOrderItems

SpecReads == InitReads /\ [][NextReads]_vars

\* SpecCart: one create-order of cust1 at a time, for any restaurant id
\* (restaurant 2 may have been deactivated, id 3 does not exist), while cust1
\* adds to the cart, two requests at a time, and the customers remove from
\* their carts.  A statement after the commit may throw.
\* Restaurant 1 sells item 1, restaurant 2 item 2; cust1 has both in the
\* cart, cust2 has item 1.
InitCart ==
    /\ \E active \in BOOLEAN :
          restaurants = [SampleRestaurants EXCEPT ![2].is_active = active]
    /\ food_items = [i \in {1, 2} |-> foodRow(i, 1000, TRUE)]
    /\ nextFoodId = 3
    /\ orders = {}
    /\ nextOrderId = 1
    /\ order_items = {}
    /\ nextItemId = 1
    /\ cart_items = {[id |-> 1, customer_id |-> "cust1", food_item_id |-> 1, quantity |-> 1],
                     [id |-> 2, customer_id |-> "cust1", food_item_id |-> 2, quantity |-> 1],
                     [id |-> 3, customer_id |-> "cust2", food_item_id |-> 1, quantity |-> 1]}
    /\ nextCartId = 4
    /\ co = [p \in Procs |-> IdleCo]
    /\ tx = [p \in Procs |-> NoTx]
    /\ tr = [t \in TProcs |-> IdleTr]
    /\ ca = [a \in CProcs |-> IdleCa]
    /\ emitted = <<>>
    /\ catalogOps = 0
    /\ cartOps = 0
    /\ transitions = 0
    /\ rd = IdleRd
    /\ cr = [h \in RProcs |-> IdleCr]

NextCart ==
    \/ /\ co[PSeq[1]].pc = "idle"
       /\ nextOrderId <= MaxCartOrders
       /\ \E r \in RestIds \cup {3}, i \in DOMAIN food_items :
             CreateOrderBegin(PSeq[1], "cust1", r, <<[food_item_id |-> i, quantity |-> 1]>>)
    \/ CreateOrderSteps
    \/ \E p \in Procs : RespondThrows(p)
    \/ \E a \in CProcs :
          /\ mayBegin(a, CSeq, ca, Len(CSeq) + 1)
          /\ cartOps < MaxCartCalls
          /\ \E i \in DOMAIN food_items, q \in 1..MaxQty :
                AddToCartSelect(a, "cust1", i, q)
    \/ \E a \in CProcs : AddToCartWrite(a)
    \/ /\ cartOps < MaxCartCalls
       /\ \E c \in Customers, ci \in cart_items : RemoveFromCart(c, ci.id)

SpecCart == InitCart /\ [][NextCart]_vars

\* SpecRelease: create-order requests of cust1 at restaurant 1, two at a
\* time, whose beginTransaction() may throw.  Node runs every continuation
\* that is ready and MySQL answers every statement that does not wait for a
\* lock, so each handler's next step is taken when it stays enabled.
CreateOrderStep(p) ==
    \/ \E n \in OrderNumbers : InsertOrder(p, n)
    \/ InsertOrderItem(p)
    \/ UpdateTotalOrders(p)
    \/ ClearCart(p)
    \/ Commit(p)
    \/ Respond(p)
    \/ Rollback(p)
    \/ DeadlockVictim(p)

NextRelease ==
    \/ \E p \in Procs :
          /\ mayBegin(p, PSeq, co, Len(PSeq))
          /\ ordersBegun < MaxReleaseOrders
          /\ \E items \in SampleItems : CreateOrderBegin(p, "cust1", 1, items)
    \/ \E p \in Procs :
          /\ mayBegin(p, PSeq, co, Len(PSeq))
          /\ ordersBegun < MaxReleaseOrders
          /\ \E items \in SampleItems : BeginTransactionThrows(p, "cust1", 1, items)
    \/ \E p \in Procs : CreateOrderStep(p)

SpecRelease ==
    /\ Init
    /\ [][NextRelease]_vars
    /\ \A p \in Procs : WF_vars(CreateOrderStep(p))

\* SpecSocket: cust1 places orders at restaurant 1 (of item 1, or of an item
\* that does not exist), cook1 or cust1 asks for their transition, and
\* connected clients send order_update messages.
NextSocket ==
    \/ /\ mayBegin(PSeq[1], PSeq, co, 1)
       /\ ordersBegun < MaxSocketOrders
       /\ \E i \in {1, nextFoodId} :
             CreateOrderBegin(PSeq[1], "cust1", 1, <<[food_item_id |-> i, quantity |-> 1]>>)
    \/ CreateOrderSteps
    \/ /\ mayBegin(TSeq[1], TSeq, tr, 1)
       /\ transitions < MaxSocketCalls
       /\ \E u \in {"cook1", "cust1"}, o \in orders, s \in {"confirmed", "delivered"} :
             UpdateStatusBegin(TSeq[1], u, o.id, s)
    \/ UpdateStatusSteps
    \/ /\ relayed < MaxRelayed
       /\ \E data \in OrderUpdateData : OrderUpdate(data)

SpecSocket == Init /\ [][NextSocket]_vars

\* SpecRestaurants: restaurant 1 of cook1 exists, cook2 has none yet.  The
\* cooks send create-restaurant requests, two at a time, cust1 places orders
\* of item 1 at restaurant 1, and the cooks ask for their transition.
InitRestaurants ==
    /\ restaurants = [r \in {1} |-> SampleRestaurants[r]]
    /\ food_items = [i \in {1} |-> foodRow(1, 1000, TRUE)]
    /\ nextFoodId = 2
    /\ orders = {}
    /\ nextOrderId = 1
    /\ order_items = {}
    /\ nextItemId = 1
    /\ cart_items = {}
    /\ nextCartId = 1
    /\ co = [p \in Procs |-> IdleCo]
    /\ tx = [p \in Procs |-> NoTx]
    /\ tr = [t \in TProcs |-> IdleTr]
    /\ ca = [a \in CProcs |-> IdleCa]
    /\ emitted = <<>>
    /\ catalogOps = 0
    /\ cartOps = 0
    /\ transitions = 0
    /\ rd = IdleRd
    /\ cr = [h \in RProcs |-> IdleCr]

NextRestaurants ==
    \/ \E h \in RProcs :
          /\ \A n \in 1..Len(RSeq) :
                RSeq[n] = h => \A m \in 1..(n - 1) : cr[RSeq[m]].pc # "idle"
          /\ Cardinality(DOMAIN restaurants)
                + Cardinality({g \in RProcs : cr[g].pc = "insert"}) < MaxRestaurants
          /\ \E k \in Cooks : CreateRestaurantSelect(h, k)
    \/ \E h \in RProcs : CreateRestaurantRefuse(h)
    \/ \E h \in RProcs : CreateRestaurantInsert(h)
    \/ /\ mayBegin(PSeq[1], PSeq, co, 1)
       /\ ordersBegun < MaxRestaurantOrders
       /\ \E r \in DOMAIN restaurants :
             CreateOrderBegin(PSeq[1], "cust1", r, <<[food_item_id |-> 1, quantity |-> 1]>>)
    \/ CreateOrderSteps
    \/ /\ mayBegin(TSeq[1], TSeq, tr, 1)
       /\ transitions < MaxRestaurantCalls
       /\ \E k \in Cooks, o \in orders : UpdateStatusBegin(TSeq[1], k, o.id, "confirmed")
    \/ UpdateStatusSteps

SpecRestaurants == InitRestaurants /\ [][NextRestaurants]_vars

\* ------------------------------------------------------------------ claims

orderIds(rows) == {o.id : o \in rows}
linesOf(rows, orderId) == {l \in rows : l.order_id = orderId}

\* the caller is the cook operating the order's restaurant
operates(caller, order) ==
    user_type(caller) = "cook" /\ restaurants[order.restaurant_id].cook_id = caller

\* some line of the request names a menu item whose availability flag is false
namesUnavailable(items) ==
    \E n \in DOMAIN items :
       /\ items[n].food_item_id \in DOMAIN food_items
       /\ ~food_items[items[n].food_item_id].is_available

\* handler p takes a request in this step
begins(p) == co[p].pc = "idle" /\ co'[p].pc # "idle"

\* C1: a create-order request one of whose lines, at any position, names an
\* unavailable menu item fails (the handler goes to its catch block with an
\* error and no write pending), and neither that step nor the rollback that
\* ends the call changes an order row, an order-line row or a food item's
\* total_orders.
C1_UnavailableLineFailsWhole ==
    [][\A p \in Procs :
          /\ (begins(p) /\ namesUnavailable(co'[p].items))
                => /\ co'[p].pc = "rollback"
                   /\ co'[p].err \in {400, 404}
                   /\ tx'[p] = NoTx
                   /\ UNCHANGED <<orders, order_items, food_items>>
          /\ (co[p].pc = "rollback" /\ co'[p] # co[p])
                => /\ co'[p] = IdleCo
                   /\ tx'[p] = NoTx
                   /\ UNCHANGED <<orders, order_items, food_items>>]_vars

\* C1 witness: a request whose second line names the unavailable item 2,
\* after a line of the available item 1, was refused, and nothing was
\* written.
C1_Witness ==
    \E p \in Procs :
       /\ co[p].pc = "rollback" /\ co[p].err = 400
       /\ Len(co[p].items) = 2
       /\ co[p].items[1].food_item_id = 1 /\ co[p].items[2].food_item_id = 2
       /\ food_items[1].is_available /\ ~food_items[2].is_available
       /\ orders = {} /\ order_items = {}
       /\ \A i \in DOMAIN food_items : food_items[i].total_orders = 0

\* quantity the request lines ask of food item i
RECURSIVE requested(_, _)
requested(orderItems, i) ==
    IF orderItems = <<>> THEN 0
    ELSE (IF Head(orderItems).food_item_id = i THEN Head(orderItems).quantity ELSE 0)
            + requested(Tail(orderItems), i)

\* handler p's transaction commits in this step
commits(p) == co[p].pc = "commit" /\ co'[p].pc = "respond"

C3_FinalIsSumOfStored ==
    \A o \in orders :
       o.final_amount = o.total_amount + o.delivery_fee + o.tax_amount - o.discount_amount

\* the columns of an order row but the three a status UPDATE may touch
frameOfTransition(o) ==
    [o EXCEPT !.status = "", !.delivered_at = NULL, !.updated_at = 0]

\* handler t's UPDATE runs in this step
writes(t) == tr[t].pc = "update" /\ tr'[t].pc = "emit"

\* C4 (amended): no step changes the final_amount, total_amount,
\* delivery_fee or tax_amount of an order; the UPDATE of a status transition
\* changes no table but orders, no row but its order, and of that row only
\* status, updated_at and, when the target is delivered, delivered_at.
C4_AmountsFrozenTransitionFrame ==
    [][/\ \A o \in orders, o2 \in orders' :
             o2.id = o.id =>
                /\ o2.final_amount = o.final_amount
                /\ o2.total_amount = o.total_amount
                /\ o2.delivery_fee = o.delivery_fee
                /\ o2.tax_amount = o.tax_amount
       /\ \A t \in TProcs :
             writes(t) =>
                /\ UNCHANGED <<restaurants, food_items, order_items, cart_items>>
                /\ orderIds(orders') = orderIds(orders)
                /\ \A o \in orders, o2 \in orders' :
                      o2.id = o.id =>
                         /\ o.id # tr[t].orderId => o2 = o
                         /\ frameOfTransition(o2) = frameOfTransition(o)
                         /\ tr[t].status # "delivered" => o2.delivered_at = o.delivered_at]_vars

\* C4 witness: an order was placed, and a transition has moved it to
\* confirmed at a later time.
C4_Witness ==
    \E o \in orders, t \in TProcs :
       /\ tr[t].pc = "emit" /\ tr[t].orderId = o.id
       /\ o.status = "confirmed" /\ o.updated_at > 0

\* C4 as claimed: the UPDATE of a status transition changes, of its order's
\* row, only status and delivered_at.
C4_TransitionChangesOnlyStatus ==
    [][\A t \in TProcs :
          writes(t) =>
             \A o \in orders, o2 \in orders' :
                o2.id = o.id =>
                   [o2 EXCEPT !.status = "", !.delivered_at = NULL]
                      = [o EXCEPT !.status = "", !.delivered_at = NULL]]_vars

\* sum over order lines of (price of the menu item x quantity)
RECURSIVE pricedLines(_)
pricedLines(lines) ==
    IF lines = {} THEN 0
    ELSE LET l == CHOOSE x \in lines : TRUE
         IN  food_items[l.food_item_id].price * l.quantity + pricedLines(lines \ {l})

\* C5: every order created has total_amount = the sum over its lines of
\* price x quantity, delivery_fee = the restaurant's fee, tax_amount = 5% of
\* total_amount (to the cent), and final_amount = their sum.
C5_AmountsAsSpecified ==
    \A o \in orders :
       /\ o.total_amount = pricedLines(linesOf(order_items, o.id))
       /\ o.delivery_fee = restaurants[o.restaurant_id].delivery_fee
       /\ 100 * o.tax_amount - TaxPercent * o.total_amount \in -50..50
       /\ o.final_amount = o.total_amount + o.delivery_fee + o.tax_amount

\* handler t takes a request in this step
arrives(t) == tr[t].pc = "idle" /\ tr'[t].pc # "idle"

\* the caller of the request handler t has taken may, by the specification,
\* change the order the request names
authorized(t) ==
    \E o \in orders :
       /\ o.id = tr'[t].orderId
       /\ user_type(tr'[t].caller) = "admin" \/ operates(tr'[t].caller, o)

\* C6: a status request on an existing order by a caller who is neither an
\* administrator nor the cook operating the order's restaurant is refused,
\* with 403 when the status is one of the enumeration, and neither the
\* refusal nor its answer changes an order row or emits an event.
C6_UnauthorizedRefused ==
    [][\A t \in TProcs :
          /\ (arrives(t) /\ tr'[t].orderId \in orderIds(orders) /\ ~authorized(t))
                => /\ tr'[t].pc = "fail"
                   /\ tr'[t].status \in OrderStatus => tr'[t].err = 403
                   /\ UNCHANGED <<orders, emitted>>
          /\ (tr[t].pc = "fail" /\ tr'[t] # tr[t])
                => /\ tr'[t] = IdleTr
                   /\ UNCHANGED <<orders, emitted>>]_vars

\* C6 witness: a request of the customer who placed the order, or of the
\* cook of the other restaurant, is being refused with 403.
C6_Witness ==
    \E t \in TProcs, o \in orders :
       /\ tr[t].pc = "fail" /\ tr[t].err = 403 /\ tr[t].orderId = o.id
       /\ tr[t].caller \in {o.customer_id, "cook2"}

\* C7: once an order is delivered or cancelled, no step changes its status.
C7_TerminalStatusKept ==
    [][\A o \in orders, o2 \in orders' :
          (o2.id = o.id /\ o.status \in {"delivered", "cancelled"})
             => o2.status = o.status]_vars

\* C8: a status request by an administrator or by the cook operating the
\* order's restaurant, naming any status of the enumeration, is accepted
\* whatever the order's status, and its UPDATE leaves the target as the
\* order's status.
C8_AnyTargetAccepted ==
    [][\A t \in TProcs :
          /\ (arrives(t) /\ authorized(t) /\ tr'[t].status \in OrderStatus)
                => tr'[t].pc = "update"
          /\ (tr[t].pc = "update" /\ tr'[t] # tr[t])
                => /\ tr'[t].pc = "emit"
                   /\ \E o \in orders' : o.id = tr[t].orderId /\ o.status = tr[t].status]_vars

\* C8 witness: an order that was delivered (it carries the timestamp) has
\* been moved to cancelled.
C8_Witness ==
    \E o \in orders, t \in TProcs :
       /\ tr[t].pc = "emit" /\ tr[t].orderId = o.id /\ tr[t].status = "cancelled"
       /\ o.status = "cancelled" /\ o.delivered_at # NULL

\* C9: after every step, a delivered order has a delivered_at, and an order
\* has a delivered_at only if it had one before the step or the step left
\* it delivered (a new order has none).
C9_DeliveredAtStamped ==
    [][/\ \A o2 \in orders' : o2.status = "delivered" => o2.delivered_at # NULL
       /\ \A o2 \in orders' :
             o2.delivered_at # NULL
                => \/ o2.status = "delivered"
                   \/ \E o \in orders : o.id = o2.id /\ o.delivered_at = o2.delivered_at]_vars

\* C9 witness: two transitions of the same order ran concurrently, both
\* have written, one of them to delivered, and the order is delivered.
C9_Witness ==
    \E o \in orders :
       /\ o.status = "delivered" /\ o.delivered_at # NULL
       /\ \A t \in TProcs : tr[t].pc = "emit" /\ tr[t].orderId = o.id
       /\ \E t \in TProcs : tr[t].status # "delivered"

\* C10: no step deletes or changes an order-line row, and no step deletes
\* an order.
C10_OrdersAndLinesKept ==
    [][/\ order_items \subseteq order_items'
       /\ orderIds(orders) \subseteq orderIds(orders')]_vars

\* C11: the unit_price a create-order puts on a line is the price its
\* transaction read of the menu item, which is the item's catalog price when
\* the order becomes visible (no catalog call runs during a create-order
\* here); and no later step, a change of the item's price included, changes
\* the unit_price of an order line.
C11_UnitPriceCaptured ==
    [][/\ \A p \in Procs :
             begins(p) =>
                \A n \in DOMAIN co'[p].orderItems :
                   co'[p].orderItems[n].unit_price
                      = food_items[co'[p].orderItems[n].food_item_id].price
       /\ \A p \in Procs :
             commits(p) =>
                \A l \in linesOf(order_items', co[p].orderId) :
                   /\ l.unit_price = food_items[l.food_item_id].price
                   /\ \E n \in DOMAIN co[p].orderItems :
                         /\ co[p].orderItems[n].food_item_id = l.food_item_id
                         /\ co[p].orderItems[n].unit_price = l.unit_price
       /\ \A l \in order_items, l2 \in order_items' :
             l2.id = l.id => l2.unit_price = l.unit_price]_vars

\* C11 witness: the catalog price of an item was changed after an order of
\* it was placed, and the line still carries the price of the order's time.
C11_Witness ==
    \E l \in order_items :
       /\ l.food_item_id \in DOMAIN food_items
       /\ food_items[l.food_item_id].price # l.unit_price
       /\ l.unit_price = 1000
       /\ catalogOps = 1

\* handler p answers its caller in this step: with an error from its catch
\* block, or with 201
answersError(p) == co[p].pc = "rollback" /\ co'[p] = IdleCo
answersCreated(p) == co[p].pc = "respond" /\ co'[p] = IdleCo

\* C12: a create-order past its commit, and a transition past its UPDATE,
\* ends only by answering success, whether or not its event could be
\* emitted, and the order and the status written stay as they are.
C12_DispatchFailureSwallowed ==
    [][/\ \A p \in Procs :
             (co[p].pc = "respond" /\ co'[p] # co[p])
                => answersCreated(p) /\ orders' = orders
       /\ \A t \in TProcs :
             (tr[t].pc = "emit" /\ tr'[t] # tr[t])
                => tr'[t] = IdleTr /\ orders' = orders]_vars

\* C13: a create-order that answers an error has left no order of its own
\* in the table, and one that answers 201 has left its order there.
C13_OutcomeMatchesPersisted ==
    [][\A p \in Procs :
          /\ answersError(p) => co[p].orderId \notin orderIds(orders')
          /\ answersCreated(p) => co[p].orderId \in orderIds(orders')]_vars

\* this step emits exactly one event, the last of emitted'
emits == /\ Len(emitted') = Len(emitted) + 1
         /\ SubSeq(emitted', 1, Len(emitted)) = emitted
emittedEvent == emitted'[Len(emitted')]

\* C14: a step of a create-order handler emits at most one event; a
\* new_order event is emitted only by the step that answers 201 for a
\* create-order whose order is then in the orders table (committed), it
\* names that order and the room of that
\* order's restaurant, no new_order event for the order was emitted before,
\* and the step ends the call; the steps of a catch block emit nothing.
C14_NewOrderAfterCommitOnce ==
    [][/\ \A p \in Procs : (co'[p] # co[p] /\ emitted' # emitted) => emits
       /\ (emitted' # emitted /\ emittedEvent.event = "new_order")
             => \E p \in Procs :
                   /\ answersCreated(p)
                   /\ emittedEvent.orderId = co[p].orderId
                   /\ \E o \in orders :
                         /\ o.id = emittedEvent.orderId
                         /\ o.order_number = emittedEvent.orderNumber
                         /\ emittedEvent.room = <<"restaurant", o.restaurant_id>>
                   /\ \A n \in DOMAIN emitted :
                         emitted[n].event = "new_order"
                            => emitted[n].orderId # emittedEvent.orderId
       /\ \A p \in Procs :
             (co'[p] # co[p] /\ (co[p].pc = "rollback" \/ co'[p].pc = "rollback"))
                => emitted' = emitted]_vars

\* C14 witness: the restaurant was told of one order, once, while the other
\* create-order call, past its validation, is in its catch block.
C14_Witness ==
    /\ Len(emitted) = 1
    /\ emitted[1].event = "new_order"
    /\ \E o \in orders : o.id = emitted[1].orderId
    /\ \E q \in Procs : co[q].pc = "rollback" /\ co[q].orderItems # <<>>

\* handler t answers 200 in this step
answersUpdated(t) == tr[t].pc = "emit" /\ tr'[t] = IdleTr

\* C15: the step that answers 200 for a status transition emits exactly one
\* event, order_status_changed, to the room of the order's customer, with
\* the order's id and number and the status the transition set; no other
\* step of a transition handler, a refusal and its answer included, emits
\* an event.
C15_StatusChangedOncePerTransition ==
    [][/\ \A t \in TProcs :
             answersUpdated(t) =>
                /\ emits
                /\ emittedEvent.event = "order_status_changed"
                /\ emittedEvent.orderId = tr[t].orderId
                /\ emittedEvent.status = tr[t].status
                /\ \E o \in orders :
                      /\ o.id = tr[t].orderId
                      /\ emittedEvent.room = <<"user", o.customer_id>>
                      /\ emittedEvent.orderNumber = o.order_number
       /\ \A t \in TProcs :
             (tr'[t] # tr[t] /\ ~answersUpdated(t)) => emitted' = emitted]_vars

\* C15 witness: one transition of cust1's order to confirmed was answered
\* and the customer's room got one event with that status; a later request
\* is being refused, and no further event was emitted.
C15_Witness ==
    /\ \E n \in DOMAIN emitted :
          /\ emitted[n].event = "order_status_changed"
          /\ emitted[n].status = "confirmed"
          /\ emitted[n].room = <<"user", "cust1">>
          /\ \A m \in DOMAIN emitted :
                emitted[m].event = "order_status_changed" => m = n
    /\ \E t \in TProcs : tr[t].pc = "fail" /\ tr[t].err = 403
    /\ transitions = 2

\* the caller placed the order, operates its restaurant, or is an administrator
party(caller, order) ==
    \/ order.customer_id = caller
    \/ operates(caller, order)
    \/ user_type(caller) = "admin"

\* C16: a GET /api/orders/:id handler holds or answers an order row, and
\* order lines, only of the order asked for and only when its caller is a
\* party of that order; a request for an existing order by a customer who
\* did not place it, or by a cook who does not operate its restaurant, is
\* answered 403 with no order row and no line.
C16_GetOrderOnlyToParties ==
    rd.route = "get" =>
       /\ rd.orders # <<>> =>
             /\ Len(rd.orders) = 1
             /\ rd.orders[1].id = rd.orderId
             /\ party(rd.caller, rd.orders[1])
       /\ rd.items # {} =>
             /\ rd.orders # <<>>
             /\ \A l \in rd.items : l.order_id = rd.orderId
       /\ \A o \in orders :
             (o.id = rd.orderId /\ user_type(rd.caller) # "admin" /\ ~party(rd.caller, o))
                => /\ rd.pc = "done" /\ rd.code = 403
                   /\ rd.orders = <<>> /\ rd.items = {}

\* C16 witness: cust1, who placed order 1, asked for order 2, which cust2
\* placed at the same restaurant, and was answered 403.
C16_Witness ==
    /\ rd.route = "get" /\ rd.caller = "cust1" /\ rd.orderId = 2 /\ rd.code = 403
    /\ \E o1 \in orders, o2 \in orders :
          /\ o1.id = 1 /\ o1.customer_id = "cust1"
          /\ o2.id = 2 /\ o2.customer_id = "cust2"
          /\ o1.restaurant_id = o2.restaurant_id

\* the orders the caller may see: a customer's own, the orders of the
\* restaurant a cook operates, all for an administrator
scopeOf(caller) ==
    {o \in orders : user_type(caller) = "admin" \/ party(caller, o)}

\* C17: the rows a GET /api/orders handler holds or answers are orders of
\* its caller's scope and, with a status filter, rows of that status; a cook
\* without a restaurant gets no row and totalCount 0; and the totalCount
\* answered is the number of orders of the scope that have the status asked
\* for (all of the scope without a filter).
C17_ListOrdersScoped ==
    rd.route = "list" =>
       /\ \A n \in DOMAIN rd.orders :
             /\ rd.orders[n].id \in orderIds(scopeOf(rd.caller))
             /\ party(rd.caller, rd.orders[n]) \/ user_type(rd.caller) = "admin"
             /\ rd.status # "" => rd.orders[n].status = rd.status
       /\ (user_type(rd.caller) = "cook" /\ restaurantsOf(rd.caller) = {})
             => rd.pc = "done" /\ rd.orders = <<>> /\ rd.totalCount = 0
       /\ rd.pc = "done" =>
             /\ rd.code = 200
             /\ rd.totalCount =
                   Cardinality({o \in scopeOf(rd.caller) :
                                   rd.status # "" => o.status = rd.status})

\* C17 witness: two orders are placed, by cust1 and by cust2, order 1 is
\* delivered, and cust1's list of delivered orders was answered with that
\* one row and totalCount 1.
C17_Witness ==
    /\ rd.route = "list" /\ rd.pc = "done" /\ rd.caller = "cust1" /\ rd.status = "delivered"
    /\ Cardinality(orders) = 2
    /\ Len(rd.orders) = 1 /\ rd.orders[1].customer_id = "cust1"
    /\ rd.totalCount = 1

\* C18: after every step the orders in the table have distinct order
\* numbers; an INSERT INTO orders whose generated number is the number of an
\* order in the table fails (ER_DUP_ENTRY, answered 400) and writes nothing,
\* and the catch block that follows leaves no row of the call.
C18_OrderNumbersUnique ==
    [][/\ \A o1 \in orders', o2 \in orders' :
             o1.order_number = o2.order_number => o1.id = o2.id
       /\ \A p \in Procs :
             (/\ co[p].pc = "insert_order" /\ co'[p] # co[p]
              /\ \E o \in orders : o.order_number = co'[p].orderNumber)
                => /\ co'[p].pc = "rollback" /\ co'[p].err = 400
                   /\ tx'[p].order = {}
                   /\ orders' = orders
       /\ \A p \in Procs :
             answersError(p)
                => /\ orders' = orders /\ order_items' = order_items
                   /\ tx'[p] = NoTx]_vars

\* C18 witness: a create-order generated the number of an order of the
\* table, its insert failed, and the call is in its catch block while the
\* table holds that one order.
C18_Witness ==
    \E p \in Procs, o \in orders :
       /\ co[p].pc = "rollback" /\ co[p].err = 400
       /\ co[p].orderNumber = o.order_number
       /\ co[p].orderId = 0
       /\ Cardinality(orders) = 1

\* handler p's INSERT INTO orders fails in this step on the number of an
\* order of the table
collides(p) ==
    /\ co[p].pc = "insert_order" /\ co'[p] # co[p]
    /\ \E o \in orders : o.order_number = co'[p].orderNumber

\* C19: a create-order whose INSERT INTO orders collides does not go to its
\* catch block on that collision: it stays at the insert, to run it once
\* more with a number generated anew.  (A call comes to its insert once, from
\* its validation, so a collision met there is the call's first.)
C19_CollisionRetriedOnce ==
    [][\A p \in Procs : collides(p) => co'[p].pc = "insert_order"]_vars

\* menu item i exists and belongs to restaurant r
inRestaurant(menu, i, r) == i \in DOMAIN menu /\ menu[i].restaurant_id = r

namesNoActiveRestaurant(p) ==
    \/ co'[p].restaurant_id \notin DOMAIN restaurants
    \/ ~restaurants[co'[p].restaurant_id].is_active

\* C21: a create-order request for a restaurant that does not exist or is
\* inactive goes to the catch block with error 404 in the step that takes
\* it, with no write pending in its transaction; neither that step nor the
\* rollback that ends the call changes an order row, an order-line row, a
\* food item's total_orders or a cart row, and no auto-increment value of
\* orders or order_items is consumed.
C21_NoActiveRestaurantNotFound ==
    [][\A p \in Procs :
          /\ (begins(p) /\ namesNoActiveRestaurant(p))
                => /\ co'[p].pc = "rollback"
                   /\ co'[p].err = 404
                   /\ tx'[p] = NoTx
                   /\ UNCHANGED <<orders, order_items, food_items, cart_items,
                                  nextOrderId, nextItemId>>
          /\ (co[p].pc = "rollback" /\ co[p].err = 404 /\ co'[p] # co[p])
                => /\ co'[p] = IdleCo
                   /\ tx[p] = NoTx /\ tx'[p] = NoTx
                   /\ UNCHANGED <<orders, order_items, food_items, cart_items,
                                  nextOrderId, nextItemId>>]_vars

\* C21 witness: a request for item 2 of the deactivated restaurant 2 was
\* refused with 404; no order exists and the item is still in cust1's cart.
C21_Witness ==
    \E p \in Procs :
       /\ co[p].pc = "rollback" /\ co[p].err = 404
       /\ co[p].restaurant_id = 2 /\ ~restaurants[2].is_active
       /\ co[p].items[1].food_item_id = 2 /\ food_items[2].restaurant_id = 2
       /\ orders = {} /\ order_items = {} /\ tx[p] = NoTx
       /\ \E c \in cart_items : c.customer_id = "cust1" /\ c.food_item_id = 2

\* the cart rows of handler p's customer whose item is of the restaurant ordered from
cartOfOrder(p) ==
    {c \in cart_items : /\ c.customer_id = co[p].customer_id
                        /\ inRestaurant(food_items, c.food_item_id, co[p].restaurant_id)}

\* C22: the DELETE of a create-order marks exactly the cart rows of its
\* customer whose item belongs to the ordered restaurant; the commit removes
\* exactly the marked rows, every one of them a row of that customer and
\* that restaurant, and leaves every other row (the customer's rows of other
\* restaurants, the rows of other customers) as it was; and no other step
\* of a create-order, the rollback of a failed one included, changes a cart
\* row.
C22_CartClearedOnCommitOnly ==
    [][\A p \in Procs :
          /\ (co[p].pc = "clear_cart" /\ co'[p] # co[p])
                => tx'[p].cartDel = {c.id : c \in cartOfOrder(p)}
          /\ commits(p)
                => /\ cart_items' = {c \in cart_items : c.id \notin tx[p].cartDel}
                   /\ cart_items \ cart_items' \subseteq cartOfOrder(p)
          /\ (co'[p] # co[p] /\ ~commits(p)) => cart_items' = cart_items]_vars

\* C22 witness: cust1's order at restaurant 1 is committed; the row of item
\* 1 is gone from cust1's cart, while cust1's row of item 2 (restaurant 2)
\* and cust2's row of item 1 are still there.
C22_Witness ==
    \E p \in Procs :
       /\ co[p].pc = "respond" /\ co[p].customer_id = "cust1" /\ co[p].restaurant_id = 1
       /\ \E o \in orders : o.id = co[p].orderId
       /\ ~\E c \in cart_items : c.customer_id = "cust1" /\ c.food_item_id = 1
       /\ \E c \in cart_items : c.customer_id = "cust1" /\ c.food_item_id = 2
       /\ \E c \in cart_items : c.customer_id = "cust2" /\ c.food_item_id = 1
       /\ cartOps = 0

\* sum of the quantities of the order lines of food item i
RECURSIVE quantityOrdered(_, _)
quantityOrdered(lines, i) ==
    IF lines = {} THEN 0
    ELSE LET l == CHOOSE x \in lines : TRUE
         IN  (IF l.food_item_id = i THEN l.quantity ELSE 0)
                + quantityOrdered(lines \ {l}, i)

\* C23: in every state the total_orders of every menu item is its initial
\* value, 0, plus the sum of the quantities of the committed order lines of
\* that item, whatever the interleaving of the create-order calls and
\* whichever of them were rolled back.
C23_TotalOrdersCountsLines ==
    \A i \in DOMAIN food_items :
       food_items[i].total_orders = quantityOrdered(order_items, i)

\* C23 witness: two create-order calls that ran concurrently, each of one
\* item 1 and two items 2, have both committed.
C23_Witness ==
    /\ \A p \in Procs : co[p].pc = "respond" /\ Len(co[p].items) = 2
    /\ Cardinality(orders) = 2
    /\ food_items[1].total_orders = 2
    /\ food_items[2].total_orders = 4

\* another handler than t is between its permission check and its answer,
\* for the order handler t's request names
concurrentWith(t) ==
    \E t2 \in TProcs \ {t} :
       tr[t2].pc \in {"update", "emit"} /\ tr[t2].orderId = tr'[t].orderId

\* C25: an authorized request with a status of the enumeration that arrives
\* while another request on the same order is in flight is accepted; the
\* UPDATE of an accepted request, whatever the other has written meanwhile,
\* leaves its own target as the order's status; the step after the UPDATE is
\* the 200 answer, which changes no order; and no step but such an UPDATE
\* changes the status of an order, so the status persisted after both calls
\* is the target of the UPDATE that ran last.
C25_ConcurrentTransitionsLastWins ==
    [][/\ \A t \in TProcs :
             /\ (arrives(t) /\ concurrentWith(t) /\ authorized(t)
                    /\ tr'[t].status \in OrderStatus)
                   => tr'[t].pc = "update" /\ tr'[t].err = 0
             /\ writes(t)
                   => \A o \in orders' : o.id = tr[t].orderId => o.status = tr[t].status
             /\ (tr[t].pc \in {"update", "emit"} /\ tr'[t] # tr[t])
                   => \/ writes(t)
                      \/ answersUpdated(t) /\ orders' = orders
       /\ \A o \in orders, o2 \in orders' :
             (o2.id = o.id /\ o2.status # o.status)
                => \E t \in TProcs : writes(t) /\ tr[t].orderId = o.id
                                               /\ o2.status = tr[t].status]_vars

\* C25 witness: two requests on the same order with different targets have
\* both written; the order carries the target of the request that arrived
\* first, whose UPDATE therefore ran after the other's.
C25_Witness ==
    \E o \in orders :
       /\ \A t \in TProcs : tr[t].pc = "emit" /\ tr[t].orderId = o.id
       /\ tr[TSeq[1]].status # tr[TSeq[2]].status
       /\ o.status = tr[TSeq[1]].status
       /\ tr[TSeq[1]].caller # tr[TSeq[2]].caller

\* handler a's UPDATE or INSERT runs in this step
writesCart(a) == ca[a].pc = "write" /\ ca'[a] # ca[a]

\* C24: after every step the cart holds at most one row per customer and
\* menu item, and the write of an add-to-cart request whose item is in the
\* customer's cart at that moment leaves that row with its quantity
\* increased by the quantity requested.
C24_OneEntryQuantityAdded ==
    [][/\ \A c1, c2 \in cart_items' :
             (c1.customer_id = c2.customer_id /\ c1.food_item_id = c2.food_item_id)
                => c1 = c2
       /\ \A a \in CProcs :
             writesCart(a)
                => \A c \in cart_items :
                      (c.customer_id = ca[a].customer_id
                          /\ c.food_item_id = ca[a].food_item_id)
                         => [c EXCEPT !.quantity = @ + ca[a].quantity] \in cart_items']_vars

\* C26: every create-order handler that has checked a connection out of the
\* pool eventually releases it, whichever way the call ends.
C26_ConnectionReleased ==
    \A p \in Procs : holdsConnection(p) ~> ~holdsConnection(p)

\* positions in emitted of the order_status_changed events of an order
statusEventsOf(orderId) ==
    {n \in DOMAIN emitted : /\ emitted[n].event = "order_status_changed"
                            /\ emitted[n].orderId = orderId}

\* C27: whenever no status request is in flight, the last
\* order_status_changed event emitted for an order, if there is one, carries
\* the status the order has in the table.
C27_LastNotificationIsPersisted ==
    (\A t \in TProcs : tr[t].pc = "idle")
       => \A o \in orders :
             LET evs == statusEventsOf(o.id) IN
             evs # {} => emitted[CHOOSE n \in evs : \A m \in evs : m <= n].status = o.status

\* the events the step appends to emitted
appended == {emitted'[n] : n \in (Len(emitted) + 1)..Len(emitted')}

\* C28: every order_status_changed event a step emits to the room of a
\* customer is emitted by the 200 answer of a status request on an order of
\* that customer, made by an administrator or the cook operating its
\* restaurant, and carries that order's id and the status the request wrote.
C28_StatusEventsFromTransitions ==
    [][\A e \in appended :
          (e.event = "order_status_changed" /\ e.room[1] = "user")
             => \E t \in TProcs, o \in orders :
                   /\ answersUpdated(t)
                   /\ o.id = tr[t].orderId
                   /\ user_type(tr[t].caller) = "admin" \/ operates(tr[t].caller, o)
                   /\ e.room = <<"user", o.customer_id>>
                   /\ e.orderId = o.id
                   /\ e.status = tr[t].status]_vars

\* sum of the total_price of order lines
RECURSIVE sumTotalPrice(_)
sumTotalPrice(lines) ==
    IF lines = {} THEN 0
    ELSE LET l == CHOOSE x \in lines : TRUE
         IN  l.total_price + sumTotalPrice(lines \ {l})

\* C29: in every state every order of the table has at least one order
\* line, its total_amount is the sum of the total_price of its lines, and
\* the total_price of each line is its quantity times its unit_price.
C29_OrderHasLinesThatSumUp ==
    \A o \in orders :
       LET lines == linesOf(order_items, o.id) IN
       /\ lines # {}
       /\ o.total_amount = sumTotalPrice(lines)
       /\ \A l \in lines : l.total_price = l.quantity * l.unit_price

\* C30: in every state no cook has more than one row in restaurants.
C30_OneRestaurantPerCook ==
    \A k \in Cooks :
       Cardinality({r \in DOMAIN restaurants : restaurants[r].cook_id = k}) <= 1

====
